---- MODULE Spec2Model ----
(***************************************************************************)
(* venue2playlist. The record-filter framework (filters/__init__.py,       *)
(* filters/confidence.py, filters/date_range.py, filters/field.py) over    *)
(* Performance records (models.py).                                        *)
(*                                                                         *)
(* Representation.                                                         *)
(*   - a date is its proleptic ordinal (date.toordinal()), a positive      *)
(*     integer; Python's None for a date is NoDate, for a tuple NoRange;   *)
(*   - a float in [0,1] with two decimals is its number of hundredths      *)
(*     (0.49 is 49, 1.0 is 100);                                           *)
(*   - a metadata value is tagged with its Python type.                    *)
(*                                                                         *)
(* The track selection strategies (spotify/strategies.py) over Spotify     *)
(* track dictionaries.                                                     *)
(*   - a release-date string is the sequence of the parts str.split("-")   *)
(*     gives, each part with its text, its str.isdigit() and its int();    *)
(*   - a datetime.date of a Track is the triple <<year, month, day>>;      *)
(*   - an era score, a float that is always a whole number, is an integer; *)
(*   - random.sample is the choice of the positions it draws.              *)
(*                                                                         *)
(* The strategy resolver and SpotifyClient.get_tracks_for_artist           *)
(* (spotify/client.py), SetlistFmSource.get_performances with the          *)
(* performances table of the cache (sources/setlist_fm.py, cache.py), and  *)
(* Pipeline.run (pipeline.py).                                             *)
(*   - a strategy name is a string, split and lowercased by character;     *)
(*   - a key a response may lack holds <<>> or a one-element tuple;        *)
(*   - get_performances and run are taken step by step, one step per       *)
(*     request of the page loop and per call on the Spotify client.        *)
(***************************************************************************)
EXTENDS Integers, Sequences, FiniteSets, TLC

VARIABLES
    performances,   \* the list handed to apply()
    flt,            \* the filter object a constructor call last produced
    error,          \* the exception the last constructor call raised
    filters,        \* FilterChain._filters
    result,         \* the FilterResult of the last apply(), with its origin
    calls,          \* history: the argument of each filter.apply() call made
                    \* by the last FilterChain.apply(), in call order
    requested,      \* history: the argument of the last ConfidenceFilter(..)
                    \* call, as a one-element tuple
    tracks,         \* the catalog handed to select_tracks()
    performance_date, \* the performance date handed to select_tracks()
    count,          \* the count handed to select_tracks()
    strategy,       \* the strategy object select_tracks() was called on
    selection,      \* the outcome of select_tracks(): the list returned or
                    \* the exception raised, and the scores it computed
    strategy_name,  \* the strategy name handed to get_strategy() and to
                    \* get_tracks_for_artist()
    kwargs,         \* the keyword arguments handed to get_strategy()
    artist_name,    \* the artist name handed to get_tracks_for_artist()
    spotify,        \* what Spotify answers for the artist: the search result,
                    \* the top tracks and the tracks of the albums
    endpoint,       \* history: the request the track list came from
    client_result,  \* the outcome of get_strategy() or of
                    \* get_tracks_for_artist()
    source_pc,      \* where SetlistFmSource.get_performances() is: not
                    \* called, in its page loop, or returned
    source_args,    \* the venue id and the dates handed to get_performances()
    page,           \* the local page of get_performances()
    total_pages,    \* the local total_pages of get_performances()
    all_setlists,   \* the local all_setlists of get_performances()
    failed,         \* whether a page request of the call raised HTTPError
    pages_requested, \* history: the pages the call requested, in order
    cache,          \* the rows of the performances table of the cache
    source_result,  \* the list get_performances() returned, and whether it
                    \* came from the cache
    pipeline_pc,    \* where Pipeline.run() is: not called, in its track
                    \* loop, before add_tracks_to_playlist(), or ended
    pipeline_args,  \* the arguments of run()
    venues,         \* the local venues of run()
    filtered_performances, \* the local filtered_performances of run()
    unique_performances,   \* the local unique_performances of run()
    artist_index,   \* the position of the track loop in unique_performances
    all_tracks,     \* the local all_tracks of run()
    run_excluded,   \* the local all_excluded of run()
    spotify_calls,  \* history: the calls run() made on the Spotify client
    pipeline_result \* how run() ended

filterVars == <<performances, flt, error, filters, result, calls, requested>>
strategyVars == <<tracks, performance_date, count, strategy, selection>>
clientVars ==
    <<strategy_name, kwargs, artist_name, spotify, endpoint, client_result>>
sourceVars ==
    <<source_pc, source_args, page, total_pages, all_setlists, failed,
      pages_requested, cache, source_result>>
pipelineVars ==
    <<pipeline_pc, pipeline_args, venues, filtered_performances,
      unique_performances, artist_index, all_tracks, run_excluded,
      spotify_calls, pipeline_result>>
vars == <<filterVars, strategyVars, clientVars, sourceVars, pipelineVars>>

\* what a filter call, a select_tracks() call and a client call leave alone
notFilterVars == <<strategyVars, clientVars, sourceVars, pipelineVars>>
notStrategyVars == <<filterVars, clientVars, sourceVars, pipelineVars>>
notClientVars == <<filterVars, sourceVars, pipelineVars>>
notSourceVars == <<filterVars, strategyVars, clientVars, pipelineVars>>
notPipelineVars == <<filterVars, strategyVars, clientVars, sourceVars>>

-----------------------------------------------------------------------------
(* Bounds of the model *)

MaxDay == 3
MaxLen == 2
MaxChain == 2
MaxTracks == 3
MaxCount == 3
MaxTotal == 3

-----------------------------------------------------------------------------
(* Python values *)

NoDate == 0
NoRange == <<>>
NoValue == [kind |-> "none"]
NoFilter == [kind |-> "none"]

StrValue(s) == [kind |-> "str", val |-> s]
ListValue(items) == [kind |-> "list", val |-> items]

\* the strings of the model, in the order Python's sorted() gives them
StrOrder == <<"Jazz", "Punk", "Rock", "jazz", "punk", "rock">>

\* str.lower()
lower(s) ==
    CASE s = "Jazz" -> "jazz"
      [] s = "Punk" -> "punk"
      [] s = "Rock" -> "rock"
      [] OTHER -> s

Digits2(n) == IF n < 10 THEN "0" \o ToString(n) ELSE ToString(n)

\* f"{x:.2f}" of a float given in hundredths
Format2f(x) == ToString(x \div 100) \o "." \o Digits2(x % 100)

\* str() of a float given in hundredths: 50 is "0.5", 100 is "1.0", 49 is "0.49"
FloatStr(x) ==
    ToString(x \div 100) \o "." \o
        (IF x % 10 = 0 THEN ToString((x % 100) \div 10) ELSE Digits2(x % 100))

\* str() of a date: one string per date
DateStr(d) == "day-" \o ToString(d)

\* str() of a (start, end) tuple of dates, or of None
RangeStr(r) ==
    IF r = NoRange THEN "None"
    ELSE "(" \o DateStr(r[1]) \o ", " \o DateStr(r[2]) \o ")"

\* the outcome of a call: the exception it raised, or the value it returned
Raise(e) == [raised |-> e, value |-> NoFilter]
Return(v) == [raised |-> "none", value |-> v]

-----------------------------------------------------------------------------
(* models.py: Performance, ExcludedItem *)

Performance(artist, d, r, score, genre) ==
    [artist_name |-> artist,
     venue_name |-> "CBGB",
     performance_date |-> d,
     performance_date_range |-> r,
     confidence_score |-> score,
     metadata |-> IF genre = NoValue THEN <<>> ELSE [genre |-> genre]]

ExcludedItem(type, n, why, by) ==
    [item_type |-> type, name |-> n, reason |-> why, filter_name |-> by]

\* mutant: every record counts as dated
has_valid_date_always(perf) == TRUE

has_valid_date(perf) ==
    perf.performance_date # NoDate \/ perf.performance_date_range # NoRange

\* mutant: the window's last day is left out
overlaps_range_end_exclusive(perf, start, end) ==
    IF perf.performance_date # NoDate
    THEN start <= perf.performance_date /\ perf.performance_date < end
    ELSE IF perf.performance_date_range # NoRange
         THEN perf.performance_date_range[1] <= end
                  /\ start <= perf.performance_date_range[2]
         ELSE FALSE

\* mutant: a range must lie inside the window
overlaps_range_containment(perf, start, end) ==
    IF perf.performance_date # NoDate
    THEN start <= perf.performance_date /\ perf.performance_date <= end
    ELSE IF perf.performance_date_range # NoRange
         THEN start <= perf.performance_date_range[1]
                  /\ perf.performance_date_range[2] <= end
         ELSE FALSE

overlaps_range(perf, start, end) ==
    IF perf.performance_date # NoDate
    THEN start <= perf.performance_date /\ perf.performance_date <= end
    ELSE IF perf.performance_date_range # NoRange
         THEN LET perf_start == perf.performance_date_range[1]
                  perf_end == perf.performance_date_range[2]
              IN  perf_start <= end /\ start <= perf_end
         ELSE FALSE

\* dict.get(key): None when the key is absent
metadata_get(perf, key) ==
    IF key \in DOMAIN perf.metadata THEN perf.metadata[key] ELSE NoValue

PerfLabel(perf) == perf.artist_name \o " @ " \o perf.venue_name

FilterResult(inc, exc) == [included |-> inc, excluded |-> exc]

-----------------------------------------------------------------------------
(* filters/confidence.py *)

\* mutant: the threshold is clamped into [0,1]
ConfidenceFilter_init_clamped(min_confidence) ==
    Return([kind |-> "confidence",
            min_confidence |->
                IF min_confidence < 0 THEN 0
                ELSE IF min_confidence > 100 THEN 100 ELSE min_confidence])

\* ConfidenceFilter(min_confidence)
ConfidenceFilter_init(min_confidence) ==
    IF ~(0 <= min_confidence /\ min_confidence <= 100)
    THEN Raise("ValueError")
    ELSE Return([kind |-> "confidence", min_confidence |-> min_confidence])

ConfidenceFilter_name(self) ==
    "confidence(>=" \o FloatStr(self.min_confidence) \o ")"

\* mutant: a score equal to the threshold is left out
ConfidenceFilter_includes_strict(self, perf) ==
    perf.confidence_score > self.min_confidence

ConfidenceFilter_includes(self, perf) ==
    perf.confidence_score >= self.min_confidence

ConfidenceFilter_excluded(self, perf) ==
    ExcludedItem("performance", PerfLabel(perf),
                 "Confidence " \o Format2f(perf.confidence_score)
                     \o " below threshold " \o FloatStr(self.min_confidence),
                 ConfidenceFilter_name(self))

RECURSIVE ConfidenceFilter_loop(_, _, _, _, _)
ConfidenceFilter_loop(self, perfs, i, included, excluded) ==
    IF i > Len(perfs) THEN FilterResult(included, excluded)
    ELSE IF ConfidenceFilter_includes(self, perfs[i])
         THEN ConfidenceFilter_loop(self, perfs, i + 1,
                                    Append(included, perfs[i]), excluded)
         ELSE ConfidenceFilter_loop(self, perfs, i + 1, included,
                  Append(excluded, ConfidenceFilter_excluded(self, perfs[i])))

ConfidenceFilter_apply(self, perfs) ==
    ConfidenceFilter_loop(self, perfs, 1, <<>>, <<>>)

-----------------------------------------------------------------------------
(* filters/date_range.py *)

DateRangeFilter(start_date, end_date) ==
    [kind |-> "date_range", start_date |-> start_date, end_date |-> end_date]

DateRangeFilter_name(self) ==
    "date_range(" \o DateStr(self.start_date) \o ":"
        \o DateStr(self.end_date) \o ")"

DateRangeFilter_no_evidence(self, perf) ==
    ExcludedItem("performance", PerfLabel(perf),
                 "No temporal evidence (missing date)",
                 DateRangeFilter_name(self))

DateRangeFilter_outside(self, perf) ==
    LET date_str == IF perf.performance_date # NoDate
                    THEN DateStr(perf.performance_date)
                    ELSE RangeStr(perf.performance_date_range)
    IN  ExcludedItem("performance", PerfLabel(perf),
                     "Date " \o date_str \o " outside range "
                         \o DateStr(self.start_date) \o " to "
                         \o DateStr(self.end_date),
                     DateRangeFilter_name(self))

RECURSIVE DateRangeFilter_loop(_, _, _, _, _)
DateRangeFilter_loop(self, perfs, i, included, excluded) ==
    IF i > Len(perfs) THEN FilterResult(included, excluded)
    ELSE IF ~has_valid_date(perfs[i])
         THEN DateRangeFilter_loop(self, perfs, i + 1, included,
                  Append(excluded, DateRangeFilter_no_evidence(self, perfs[i])))
         ELSE IF overlaps_range(perfs[i], self.start_date, self.end_date)
              THEN DateRangeFilter_loop(self, perfs, i + 1,
                                        Append(included, perfs[i]), excluded)
              ELSE DateRangeFilter_loop(self, perfs, i + 1, included,
                       Append(excluded, DateRangeFilter_outside(self, perfs[i])))

\* mutant: a record without a date is skipped
RECURSIVE DateRangeFilter_loop_skip(_, _, _, _, _)
DateRangeFilter_loop_skip(self, perfs, i, included, excluded) ==
    IF i > Len(perfs) THEN FilterResult(included, excluded)
    ELSE IF ~has_valid_date(perfs[i])
         THEN DateRangeFilter_loop_skip(self, perfs, i + 1, included, excluded)
         ELSE IF overlaps_range(perfs[i], self.start_date, self.end_date)
              THEN DateRangeFilter_loop_skip(self, perfs, i + 1,
                                             Append(included, perfs[i]),
                                             excluded)
              ELSE DateRangeFilter_loop_skip(self, perfs, i + 1, included,
                       Append(excluded, DateRangeFilter_outside(self, perfs[i])))

DateRangeFilter_apply_skip_undated(self, perfs) ==
    DateRangeFilter_loop_skip(self, perfs, 1, <<>>, <<>>)

DateRangeFilter_apply(self, perfs) ==
    DateRangeFilter_loop(self, perfs, 1, <<>>, <<>>)

-----------------------------------------------------------------------------
(* filters/field.py *)

FieldFilter(field, allowed_values, case_insensitive, include_missing) ==
    [kind |-> "field",
     field |-> field,
     allowed_values |-> allowed_values,
     case_insensitive |-> case_insensitive,
     include_missing |-> include_missing,
     normalized_allowed |->
         IF case_insensitive THEN {lower(v) : v \in allowed_values}
         ELSE allowed_values]

RECURSIVE Join(_, _)
Join(strs, sep) ==
    IF strs = <<>> THEN ""
    ELSE IF Len(strs) = 1 THEN strs[1]
         ELSE strs[1] \o sep \o Join(Tail(strs), sep)

FieldFilter_name(self) ==
    LET InAllowed(s) == s \in self.allowed_values
        values_str == Join(SelectSeq(StrOrder, InAllowed), ",")
    IN  "field(" \o self.field \o "={" \o values_str \o "})"

\* value is a string here
FieldFilter_normalize_value(self, value) ==
    IF self.case_insensitive THEN lower(value) ELSE value

\* mutant: the elements of a list are compared as they are
FieldFilter_matches_raw_elements(self, value) ==
    IF value.kind = "list"
    THEN \E k \in 1..Len(value.val) : value.val[k] \in self.normalized_allowed
    ELSE FieldFilter_normalize_value(self, value.val) \in self.normalized_allowed

FieldFilter_matches(self, value) ==
    IF value.kind = "list"
    THEN \E k \in 1..Len(value.val) :
             FieldFilter_normalize_value(self, value.val[k])
                 \in self.normalized_allowed
    ELSE FieldFilter_normalize_value(self, value.val) \in self.normalized_allowed

ValueStr(value) ==
    IF value.kind = "list" THEN "['" \o Join(value.val, "', '") \o "']"
    ELSE value.val

FieldFilter_missing(self, perf) ==
    ExcludedItem("performance", PerfLabel(perf),
                 "Missing metadata field '" \o self.field \o "'",
                 FieldFilter_name(self))

FieldFilter_not_allowed(self, perf, field_value) ==
    ExcludedItem("performance", PerfLabel(perf),
                 "Field '" \o self.field \o "' value '" \o ValueStr(field_value)
                     \o "' not in allowed values",
                 FieldFilter_name(self))

RECURSIVE FieldFilter_loop(_, _, _, _, _)
FieldFilter_loop(self, perfs, i, included, excluded) ==
    IF i > Len(perfs) THEN FilterResult(included, excluded)
    ELSE LET field_value == metadata_get(perfs[i], self.field)
         IN  IF field_value = NoValue
             THEN IF self.include_missing
                  THEN FieldFilter_loop(self, perfs, i + 1,
                                        Append(included, perfs[i]), excluded)
                  ELSE FieldFilter_loop(self, perfs, i + 1, included,
                           Append(excluded, FieldFilter_missing(self, perfs[i])))
             ELSE IF FieldFilter_matches(self, field_value)
                  THEN FieldFilter_loop(self, perfs, i + 1,
                                        Append(included, perfs[i]), excluded)
                  ELSE FieldFilter_loop(self, perfs, i + 1, included,
                           Append(excluded,
                                  FieldFilter_not_allowed(self, perfs[i],
                                                          field_value)))

\* mutant: a record without the field is looked up in the allowed values,
\* None being allowed only by include_missing or an empty allowed set
RECURSIVE FieldFilter_loop_lookup(_, _, _, _, _)
FieldFilter_loop_lookup(self, perfs, i, included, excluded) ==
    IF i > Len(perfs) THEN FilterResult(included, excluded)
    ELSE LET field_value == metadata_get(perfs[i], self.field)
             keep == IF field_value = NoValue
                     THEN self.include_missing /\ "punk" \in self.normalized_allowed
                     ELSE FieldFilter_matches(self, field_value)
         IN  IF keep
             THEN FieldFilter_loop_lookup(self, perfs, i + 1,
                                          Append(included, perfs[i]), excluded)
             ELSE FieldFilter_loop_lookup(self, perfs, i + 1, included,
                      Append(excluded, FieldFilter_missing(self, perfs[i])))

FieldFilter_apply_lookup_missing(self, perfs) ==
    FieldFilter_loop_lookup(self, perfs, 1, <<>>, <<>>)

FieldFilter_apply(self, perfs) ==
    FieldFilter_loop(self, perfs, 1, <<>>, <<>>)

-----------------------------------------------------------------------------
(* filters/__init__.py: the Filter protocol and FilterChain *)

\* filter.name, dispatched on the filter's class
Filter_name(self) ==
    CASE self.kind = "confidence" -> ConfidenceFilter_name(self)
      [] self.kind = "date_range" -> DateRangeFilter_name(self)
      [] self.kind = "field" -> FieldFilter_name(self)

\* filter.apply(performances), dispatched on the filter's class
Filter_apply(self, perfs) ==
    CASE self.kind = "confidence" -> ConfidenceFilter_apply(self, perfs)
      [] self.kind = "date_range" -> DateRangeFilter_apply(self, perfs)
      [] self.kind = "field" -> FieldFilter_apply(self, perfs)

RECURSIVE FilterChain_loop(_, _, _, _, _)
FilterChain_loop(fs, i, current, all_excluded, seen) ==
    IF i > Len(fs)
    THEN [included |-> current, excluded |-> all_excluded, calls |-> seen]
    ELSE LET r == Filter_apply(fs[i], current)
         IN  FilterChain_loop(fs, i + 1, r.included,
                              all_excluded \o r.excluded,
                              Append(seen, current))

\* mutant: every filter is given the chain's input
RECURSIVE FilterChain_loop_unthreaded(_, _, _, _, _, _)
FilterChain_loop_unthreaded(fs, perfs, i, current, all_excluded, seen) ==
    IF i > Len(fs)
    THEN [included |-> current, excluded |-> all_excluded, calls |-> seen]
    ELSE LET r == Filter_apply(fs[i], perfs)
         IN  FilterChain_loop_unthreaded(fs, perfs, i + 1, r.included,
                                         all_excluded \o r.excluded,
                                         Append(seen, perfs))

FilterChain_apply_unthreaded(fs, perfs) ==
    FilterChain_loop_unthreaded(fs, perfs, 1, perfs, <<>>, <<>>)

\* mutant: each stage's excluded items replace the earlier ones
RECURSIVE FilterChain_loop_overwrite(_, _, _, _, _)
FilterChain_loop_overwrite(fs, i, current, all_excluded, seen) ==
    IF i > Len(fs)
    THEN [included |-> current, excluded |-> all_excluded, calls |-> seen]
    ELSE LET r == Filter_apply(fs[i], current)
         IN  FilterChain_loop_overwrite(fs, i + 1, r.included, r.excluded,
                                        Append(seen, current))

FilterChain_apply_overwrite(fs, perfs) ==
    FilterChain_loop_overwrite(fs, 1, perfs, <<>>, <<>>)

\* mutant: each stage's excluded items go in front of the earlier ones
RECURSIVE FilterChain_loop_prepend(_, _, _, _, _)
FilterChain_loop_prepend(fs, i, current, all_excluded, seen) ==
    IF i > Len(fs)
    THEN [included |-> current, excluded |-> all_excluded, calls |-> seen]
    ELSE LET r == Filter_apply(fs[i], current)
         IN  FilterChain_loop_prepend(fs, i + 1, r.included,
                                      r.excluded \o all_excluded,
                                      Append(seen, current))

FilterChain_apply_prepend(fs, perfs) ==
    FilterChain_loop_prepend(fs, 1, perfs, <<>>, <<>>)

\* mutant: the loop returns after its first filter
FilterChain_apply_first_only(fs, perfs) ==
    IF fs = <<>>
    THEN [included |-> perfs, excluded |-> <<>>, calls |-> <<>>]
    ELSE LET r == Filter_apply(fs[1], perfs)
         IN  [included |-> r.included, excluded |-> r.excluded,
              calls |-> <<perfs>>]

\* FilterChain.apply; the calls field records what each filter.apply() was given
FilterChain_apply(fs, perfs) ==
    FilterChain_loop(fs, 1, perfs, <<>>, <<>>)

\* The list given to filter.apply(), as it is when the call has returned: the
\* loop of each filter reads perf.confidence_score, perf.performance_date,
\* perf.date_range and perf.metadata.get(field), and appends perf to the
\* included list the call created; it assigns to no record and to no element
\* of the list.
Filter_apply_argument(self, perfs) == perfs

\* mutant: the first filter removes the records it excludes from its argument
FilterChain_apply_argument_drained(fs, perfs) ==
    IF fs = <<>> THEN perfs ELSE Filter_apply(fs[1], perfs).included

\* The list given to FilterChain.apply(), as it is when the call has
\* returned: current is that list in the first filter.apply() call only, the
\* later calls are given the included list of the call before.
FilterChain_apply_argument(fs, perfs) ==
    IF fs = <<>> THEN perfs ELSE Filter_apply_argument(fs[1], perfs)

\* self._filters when FilterChain.apply() has returned: the loop iterates
\* over it, and only add() appends to it
FilterChain_apply_filters(fs) == fs

-----------------------------------------------------------------------------
(* Python values of the strategies *)

\* The largest value of a C int, which datetime.date converts its arguments
\* to. The integers above 9999, the largest year of a date, are scaled down
\* to fit the integers of the model: 99999 stands for 2^31 - 1, and a larger
\* number for an integer beyond it. The order of the integers is kept, and so
\* is every distance of more than ten years.
INT_MAX == 99999

\* None for Track.release_date and for the performance_date argument
NoReleaseDate == <<>>
NoStrategy == [kind |-> "none"]

\* one part of a release-date string
Part(text, isdigit, int) == [text |-> text, isdigit |-> isdigit, int |-> int]
\* a run of decimal digits, written with at least two of them
Digits(n) == Part(Digits2(n), TRUE, <<n>>)
\* digits after a blank: int() accepts them, str.isdigit() does not
Padded(n) == Part(" " \o ToString(n), FALSE, <<n>>)
\* a part int() rejects; the empty part is Word("")
Word(w) == Part(w, FALSE, <<>>)

\* the string itself: "-".join(parts)
RECURSIVE Text(_)
Text(parts) ==
    IF Len(parts) = 1 THEN parts[1].text
    ELSE parts[1].text \o "-" \o Text(Tail(parts))

EmptyStr == <<Word("")>>
\* bool(s) of a string
Truthy(s) == s # EmptyStr

\* the outcome of a call: the value returned, or the exception raised
Returned(v) == [raised |-> "none", value |-> v]
Raised(e) == [raised |-> e, value |-> <<>>]

\* int(part)
int(part) == IF part.int = <<>> THEN Raised("ValueError") ELSE Returned(part.int[1])

IsLeap(y) == (y % 4 = 0 /\ y % 100 # 0) \/ y % 400 = 0
DaysInMonth(y, m) ==
    IF m = 2 THEN (IF IsLeap(y) THEN 29 ELSE 28)
    ELSE IF m \in {4, 6, 9, 11} THEN 30 ELSE 31

\* datetime.date(year, month, day) of non-negative integers
date(year, month, day) ==
    IF year > INT_MAX \/ month > INT_MAX \/ day > INT_MAX
    THEN Raised("OverflowError")
    ELSE IF year \in 1..9999 /\ month \in 1..12
                /\ day \in 1..DaysInMonth(year, month)
    THEN Returned(<<year, month, day>>)
    ELSE Raised("ValueError")

\* list[:n]
Slice(list, n) ==
    IF n >= 0 THEN SubSeq(list, 1, IF n < Len(list) THEN n ELSE Len(list))
    ELSE SubSeq(list, 1, IF Len(list) + n > 0 THEN Len(list) + n ELSE 0)

-----------------------------------------------------------------------------
(* Spotify track dictionaries and models.py: Track *)

\* a track dictionary of the Spotify API; release is the album's release_date
TrackData(id, release, popularity) ==
    [id |-> id, name |-> "Song " \o id,
     album |-> [name |-> "LP", release_date |-> release],
     popularity |-> popularity]

\* a track dictionary whose album has no release_date key
TrackDataUndated(id, popularity) ==
    [id |-> id, name |-> "Song " \o id, album |-> [name |-> "LP"],
     popularity |-> popularity]

\* track.get("popularity", default)
popularity_get(track, default) ==
    IF "popularity" \in DOMAIN track THEN track.popularity ELSE default

\* track.get("album", {}).get("release_date", default)
release_date_get(track, default) ==
    IF "release_date" \in DOMAIN track.album THEN track.album.release_date
    ELSE default

Track(spotify_id, name, album_name, release_date, popularity, strategy_, reason) ==
    [spotify_id |-> spotify_id, name |-> name, artist_name |-> "Unknown",
     album_name |-> album_name, release_date |-> release_date,
     popularity |-> popularity, selection_strategy |-> strategy_,
     selection_reason |-> reason]

-----------------------------------------------------------------------------
(* spotify/strategies.py: BaseStrategy._track_to_model *)

\* date(int(a), int(b), int(c)): the arguments are converted first
date_of_parts(a, b, c) ==
    IF int(a).raised # "none" \/ int(b).raised # "none" \/ int(c).raised # "none"
    THEN Raised("ValueError")
    ELSE date(int(a).value, int(b).value, int(c).value)

\* the body of the try block: the date built from the parts, None when no
\* branch is taken, or the exception
parse_release_date(release_date_str) ==
    LET parts == release_date_str
    IN  IF Len(parts) >= 3 THEN date_of_parts(parts[1], parts[2], parts[3])
        ELSE IF Len(parts) = 2 THEN date_of_parts(parts[1], parts[2], Digits(1))
        ELSE IF Len(parts) = 1 /\ parts[1].isdigit
        THEN date_of_parts(parts[1], Digits(1), Digits(1))
        ELSE Returned(NoReleaseDate)

\* the release date _track_to_model computes: except (ValueError, IndexError)
\* leaves None, any other exception leaves the function
release_date_of(track) ==
    LET release_date_str == release_date_get(track, EmptyStr)
    IN  IF ~Truthy(release_date_str) THEN Returned(NoReleaseDate)
        ELSE LET parsed == parse_release_date(release_date_str)
             IN  IF parsed.raised \in {"ValueError", "IndexError"}
                 THEN Returned(NoReleaseDate)
                 ELSE parsed

\* self._track_to_model(track, reason), self.name being name
track_to_model(name, track, reason) ==
    LET release_date == release_date_of(track)
    IN  IF release_date.raised # "none" THEN Raised(release_date.raised)
        ELSE Returned(Track(track.id, track.name, track.album.name,
                            release_date.value, popularity_get(track, 0), name,
                            reason))

\* [self._track_to_model(t, reason) for i, t in enumerate(selected)], the
\* reason of the i-th track being reasons[i]: the first exception ends the
\* comprehension
RECURSIVE tracks_to_models(_, _, _, _, _)
tracks_to_models(name, selected, reasons, i, done) ==
    IF i > Len(selected) THEN Returned(done)
    ELSE LET made == track_to_model(name, selected[i], reasons[i])
         IN  IF made.raised # "none" THEN Raised(made.raised)
             ELSE tracks_to_models(name, selected, reasons, i + 1,
                                   Append(done, made.value))

-----------------------------------------------------------------------------
(* spotify/strategies.py: the four strategies *)

TopNStrategy == [kind |-> "top_n"]
RandomNStrategy == [kind |-> "random_n"]
EraWeightedStrategy == [kind |-> "era_weighted"]
DeepCutsStrategy(max_popularity) ==
    [kind |-> "deep_cuts", max_popularity |-> max_popularity]

\* strategy.name
Strategy_name(self) ==
    IF self.kind = "deep_cuts"
    THEN "deep_cuts(max_pop=" \o ToString(self.max_popularity) \o ")"
    ELSE self.kind

\* list.sort(key=.., reverse=reverse) and sorted(list, key=..) of a list of
\* <<key, element>> pairs: stable, so that an element goes behind every
\* earlier element it does not have to precede
RECURSIVE sorted(_, _, _, _)
sorted(list, reverse, i, done) ==
    IF i > Len(list) THEN done
    ELSE LET x == list[i]
             Stays(e) == IF reverse THEN e[1] >= x[1] ELSE e[1] <= x[1]
             ahead == Cardinality({j \in 1..Len(done) :
                          \A k \in 1..j : Stays(done[k])})
         IN  sorted(list, reverse, i + 1,
                    SubSeq(done, 1, ahead) \o <<x>>
                        \o SubSeq(done, ahead + 1, Len(done)))

\* the sequences of count distinct positions random.sample can draw from a
\* population of n elements
Samples(n, k) ==
    {s \in [1..k -> 1..n] : \A a, b \in 1..k : a # b => s[a] # s[b]}

\* random.sample(population, k), drawing the positions sample
random_sample(population, k, sample) ==
    IF k < 0 \/ k > Len(population) THEN Raised("ValueError")
    ELSE Returned([j \in 1..k |-> population[sample[j]]])

\* the draws a call makes that selects count of a pool at random when the pool
\* has more than count elements
DrawsFor(pool, k) ==
    IF Len(pool) <= k \/ k < 0 THEN {<<>>} ELSE Samples(Len(pool), k)

\* TopNStrategy.select_tracks
TopNStrategy_select_tracks(self, tracks_, performance_date_, count_) ==
    LET selected == Slice(tracks_, count_)
        reasons == [i \in 1..Len(selected) |->
                       "Top " \o ToString(i) \o " by popularity"]
    IN  tracks_to_models(Strategy_name(self), selected, reasons, 1, <<>>)

\* the choice between the whole pool and a random sample of it
select_or_sample(pool, count_, sample) ==
    IF Len(pool) <= count_ THEN Returned(pool)
    ELSE random_sample(pool, count_, sample)

\* RandomNStrategy.select_tracks, random.sample drawing the positions sample
RandomNStrategy_select_tracks(self, tracks_, performance_date_, count_, sample) ==
    LET selected == select_or_sample(tracks_, count_, sample)
    IN  IF selected.raised # "none" THEN selected
        ELSE tracks_to_models(Strategy_name(self), selected.value,
                 [i \in 1..Len(selected.value) |->
                     "Random selection from catalog"], 1, <<>>)

\* EraWeightedStrategy._calculate_era_score
calculate_era_score(release_date_str, performance_date_) ==
    IF ~Truthy(release_date_str) THEN 0
    ELSE IF int(release_date_str[1]).raised # "none" THEN 0
    ELSE LET release_year == int(release_date_str[1]).value
             perf_year == performance_date_[1]
             years_diff == IF release_year >= perf_year
                           THEN release_year - perf_year
                           ELSE perf_year - release_year
         IN  IF 100 - years_diff * 10 > 0 THEN 100 - years_diff * 10 ELSE 0

\* scored_tracks before it is sorted
scored_tracks_of(tracks_, performance_date_) ==
    [i \in 1..Len(tracks_) |->
        <<calculate_era_score(release_date_get(tracks_[i], EmptyStr),
                              performance_date_),
          tracks_[i]>>]

\* the scores select_tracks computes, one per catalog position
EraWeightedStrategy_scores(tracks_, performance_date_) ==
    IF performance_date_ = NoReleaseDate THEN <<>>
    ELSE [i \in 1..Len(tracks_) |->
             scored_tracks_of(tracks_, performance_date_)[i][1]]

era_reason(t) ==
    "Era-weighted: released "
        \o Text(release_date_get(t, <<Word("unknown")>>))

\* mutant: without a performance date the tracks are the first count, given
\* the strategy's own name and reason
EraWeightedStrategy_select_own(self, tracks_, performance_date_, count_) ==
    tracks_to_models(Strategy_name(self), Slice(tracks_, count_),
        [i \in 1..Len(Slice(tracks_, count_)) |->
            era_reason(Slice(tracks_, count_)[i])], 1, <<>>)

\* EraWeightedStrategy.select_tracks
EraWeightedStrategy_select_tracks(self, tracks_, performance_date_, count_) ==
    IF performance_date_ = NoReleaseDate
    THEN TopNStrategy_select_tracks(TopNStrategy, tracks_, performance_date_,
                                    count_)
    ELSE LET scored_tracks ==
                 sorted(scored_tracks_of(tracks_, performance_date_), TRUE,
                        1, <<>>)
             top == Slice(scored_tracks, count_)
             selected == [i \in 1..Len(top) |-> top[i][2]]
         IN  tracks_to_models(Strategy_name(self), selected,
                 [i \in 1..Len(selected) |-> era_reason(selected[i])],
                 1, <<>>)

\* the tracks DeepCutsStrategy.select_tracks selects from
deep_cuts_of(self, tracks_, count_) ==
    LET deep_cuts ==
            SelectSeq(tracks_,
                LAMBDA t : popularity_get(t, 0) <= self.max_popularity)
    IN  IF deep_cuts # <<>> THEN deep_cuts
        ELSE LET by_popularity ==
                     sorted([i \in 1..Len(tracks_) |->
                                <<popularity_get(tracks_[i], 0), tracks_[i]>>],
                            FALSE, 1, <<>>)
                 sorted_tracks ==
                     [i \in 1..Len(tracks_) |-> by_popularity[i][2]]
             IN  Slice(sorted_tracks, count_ * 2)

\* DeepCutsStrategy.select_tracks, random.sample drawing the positions sample
DeepCutsStrategy_select_tracks(self, tracks_, performance_date_, count_, sample) ==
    LET selected == select_or_sample(deep_cuts_of(self, tracks_, count_),
                                     count_, sample)
    IN  IF selected.raised # "none" THEN selected
        ELSE tracks_to_models(Strategy_name(self), selected.value,
                 [i \in 1..Len(selected.value) |->
                     "Deep cut: popularity "
                         \o (IF "popularity" \in DOMAIN selected.value[i]
                             THEN ToString(selected.value[i].popularity)
                             ELSE "unknown")],
                 1, <<>>)

-----------------------------------------------------------------------------
(* Python strings of strategy names and artist names *)

UpperCase == "ABCDEFGHIJKLMNOPQRSTUVWXYZ"
LowerCase == "abcdefghijklmnopqrstuvwxyz"
DecimalDigits == "0123456789"

\* the position of the character c in the string alphabet, 0 when it is not
\* in it
IndexIn(alphabet, c) ==
    IF \E i \in 1..Len(alphabet) : SubSeq(alphabet, i, i) = c
    THEN CHOOSE i \in 1..Len(alphabet) : SubSeq(alphabet, i, i) = c
    ELSE 0

\* str.lower()
RECURSIVE str_lower(_)
str_lower(s) ==
    IF s = "" THEN ""
    ELSE LET c == SubSeq(s, 1, 1)
             u == IndexIn(UpperCase, c)
         IN  (IF u = 0 THEN c ELSE SubSeq(LowerCase, u, u))
                 \o str_lower(SubSeq(s, 2, Len(s)))

\* sub in s
Contains(s, sub) ==
    \E i \in 1..(Len(s) - Len(sub) + 1) : SubSeq(s, i, i + Len(sub) - 1) = sub

\* s.split("-")
RECURSIVE split_dash(_)
split_dash(s) ==
    IF ~Contains(s, "-") THEN <<s>>
    ELSE LET i == CHOOSE i \in 1..Len(s) :
                      /\ SubSeq(s, i, i) = "-"
                      /\ \A j \in 1..(i - 1) : SubSeq(s, j, j) # "-"
         IN  <<SubSeq(s, 1, i - 1)>> \o split_dash(SubSeq(s, i + 1, Len(s)))

\* the number a string of decimal digits writes
RECURSIVE DigitsValue(_)
DigitsValue(s) ==
    IF s = "" THEN 0
    ELSE 10 * DigitsValue(SubSeq(s, 1, Len(s) - 1))
             + (IndexIn(DecimalDigits, SubSeq(s, Len(s), Len(s))) - 1)

\* int(s) of a string without blanks, signs and underscores: the number when
\* the string is one or more decimal digits, ValueError otherwise
int_of_str(s) ==
    IF s # "" /\ \A i \in 1..Len(s) : IndexIn(DecimalDigits, SubSeq(s, i, i)) # 0
    THEN Returned(DigitsValue(s))
    ELSE Raised("ValueError")

-----------------------------------------------------------------------------
(* spotify/strategies.py: get_strategy *)

\* **kwargs without and with max_popularity
NoKwargs == [given |-> {}]
Kwargs(max_popularity) ==
    [given |-> {"max_popularity"}, max_popularity |-> max_popularity]

\* the strategies dictionary: the class a name stands for, "none" for a name
\* that is no key
StrategyClass(strategy_name_) ==
    CASE strategy_name_ \in {"top", "top_n"} -> "top_n"
      [] strategy_name_ \in {"random", "random_n"} -> "random_n"
      [] strategy_name_ \in {"era", "era_weighted"} -> "era_weighted"
      [] strategy_name_ \in {"deep", "deep_cuts"} -> "deep_cuts"
      [] OTHER -> "none"

\* mutant: the name is looked up as it is written
get_strategy_case_sensitive(name, kwargs_) ==
    LET strategy_class == StrategyClass(split_dash(name)[1])
    IN  CASE strategy_class = "none" -> TopNStrategy
          [] strategy_class = "deep_cuts" ->
                 DeepCutsStrategy(IF "max_popularity" \in kwargs_.given
                                  THEN kwargs_.max_popularity ELSE 60)
          [] strategy_class = "top_n" -> TopNStrategy
          [] strategy_class = "random_n" -> RandomNStrategy
          [] strategy_class = "era_weighted" -> EraWeightedStrategy

\* get_strategy(name, **kwargs)
get_strategy(name, kwargs_) ==
    LET strategy_name_ ==
            IF Contains(name, "-") THEN str_lower(split_dash(name)[1])
            ELSE str_lower(name)
        strategy_class == StrategyClass(strategy_name_)
    IN  CASE strategy_class = "none" -> TopNStrategy
          [] strategy_class = "deep_cuts" ->
                 DeepCutsStrategy(IF "max_popularity" \in kwargs_.given
                                  THEN kwargs_.max_popularity ELSE 60)
          [] strategy_class = "top_n" -> TopNStrategy
          [] strategy_class = "random_n" -> RandomNStrategy
          [] strategy_class = "era_weighted" -> EraWeightedStrategy

-----------------------------------------------------------------------------
(* spotify/client.py: SpotifyClient.get_tracks_for_artist *)

\* None for an Artist and for ExcludedItem.filter_name
NoArtist == [spotify_id |-> ""]
NoFilterName == "None"

\* models.py: Artist
Artist(name, spotify_id) == [name |-> name, spotify_id |-> spotify_id]

\* what Spotify answers for one artist: the Artist search_artist() returns
\* (None when nothing is found or the search fails), the tracks
\* get_artist_top_tracks() returns ([] when the request fails) and the
\* albums get_artist_albums() returns, each with the tracks
\* get_album_tracks() returns for it
SpotifyAnswer(artist, top_tracks, albums) ==
    [artist |-> artist, top_tracks |-> top_tracks, albums |-> albums]

\* an album and its tracks, which carry no album and no popularity of their
\* own
Album(name, release, songs) ==
    [album |-> [name |-> name, release_date |-> release],
     tracks |-> [i \in 1..Len(songs) |->
                    [id |-> songs[i], name |-> "Song " \o songs[i]]]]

\* SpotifyClient.get_artist_catalog: track["album"] = album for the tracks
\* of each album, one album after the other
RECURSIVE get_artist_catalog(_)
get_artist_catalog(albums) ==
    IF albums = <<>> THEN <<>>
    ELSE [i \in 1..Len(albums[1].tracks) |->
             [id |-> albums[1].tracks[i].id, name |-> albums[1].tracks[i].name,
              album |-> albums[1].album]]
             \o get_artist_catalog(Tail(albums))

\* the count get_tracks_for_artist parses from the strategy name
count_of(strategy_name_) ==
    IF Contains(strategy_name_, "-")
    THEN LET parsed == int_of_str(split_dash(strategy_name_)[2])
         IN  IF parsed.raised = "none" THEN parsed.value ELSE 3
    ELSE 3

\* the test that sends a strategy name to the catalog
uses_catalog(strategy_name_) ==
    \/ Contains(str_lower(strategy_name_), "era")
    \/ Contains(str_lower(strategy_name_), "random")

\* the positions random.sample can draw in strategy.select_tracks
DrawsOf(self, tracks_, count_) ==
    CASE self.kind = "random_n" -> DrawsFor(tracks_, count_)
      [] self.kind = "deep_cuts" ->
             DrawsFor(deep_cuts_of(self, tracks_, count_), count_)
      [] OTHER -> {<<>>}

\* strategy.select_tracks(...), random.sample drawing the positions sample
Strategy_select_tracks(self, tracks_, performance_date_, count_, sample) ==
    CASE self.kind = "top_n" ->
             TopNStrategy_select_tracks(self, tracks_, performance_date_, count_)
      [] self.kind = "random_n" ->
             RandomNStrategy_select_tracks(self, tracks_, performance_date_,
                                           count_, sample)
      [] self.kind = "era_weighted" ->
             EraWeightedStrategy_select_tracks(self, tracks_,
                                               performance_date_, count_)
      [] self.kind = "deep_cuts" ->
             DeepCutsStrategy_select_tracks(self, tracks_, performance_date_,
                                            count_, sample)

\* the (tracks, excluded) pair get_tracks_for_artist returns, or the exception
ClientReturn(tracks_, excluded) ==
    [op |-> "get_tracks_for_artist", raised |-> "none", tracks |-> tracks_,
     excluded |-> excluded]
ClientRaise(e) ==
    [op |-> "get_tracks_for_artist", raised |-> e, tracks |-> <<>>,
     excluded |-> <<>>]

\* the track list get_tracks_for_artist fetches for a found artist
fetched_tracks(strategy_name_, answer) ==
    IF uses_catalog(strategy_name_) THEN get_artist_catalog(answer.albums)
    ELSE answer.top_tracks

\* SpotifyClient.get_tracks_for_artist, Spotify answering answer and
\* random.sample drawing the positions sample
get_tracks_for_artist(artist_name_, strategy_name_, performance_date_, answer, sample) ==
    LET count_ == count_of(strategy_name_)
        strategy_ == get_strategy(strategy_name_, NoKwargs)
        artist == answer.artist
        tracks_ == fetched_tracks(strategy_name_, answer)
    IN  IF artist = NoArtist \/ artist.spotify_id = ""
        THEN ClientReturn(<<>>, <<ExcludedItem("artist", artist_name_,
                 "Artist not found on Spotify", NoFilterName)>>)
        ELSE IF tracks_ = <<>>
        THEN ClientReturn(<<>>, <<ExcludedItem("artist", artist_name_,
                 "No tracks available on Spotify", NoFilterName)>>)
        ELSE LET selected == Strategy_select_tracks(strategy_, tracks_,
                                 performance_date_, count_, sample)
             IN  IF selected.raised # "none" THEN ClientRaise(selected.raised)
                 ELSE ClientReturn(selected.value, <<>>)

\* the positions random.sample can draw in get_tracks_for_artist
ClientDraws(strategy_name_, answer) ==
    IF answer.artist = NoArtist \/ answer.artist.spotify_id = ""
    THEN {<<>>}
    ELSE DrawsOf(get_strategy(strategy_name_, NoKwargs),
                 fetched_tracks(strategy_name_, answer),
                 count_of(strategy_name_))

-----------------------------------------------------------------------------
(* sources/setlist_fm.py and the performances table of cache.py *)

\* a key a response dictionary does not hold, and a key holding the value v
Absent == <<>>
Present(v) == <<v>>

\* data.get(key, default) on the value a response holds under the key
dict_get(held, default) == IF held = Absent THEN default ELSE held[1]

\* an eventDate string: its text and the date strptime("%d-%m-%Y") gives,
\* NoDate when strptime raises ValueError
EventDate(text, d) == [text |-> text, date |-> d]

\* a setlist of a response
Setlist(id, artist, eventDate) ==
    [id |-> id, artist |-> artist, eventDate |-> eventDate]

\* a response of GET /venue/{venue_id}/setlists: an HTTP error, or the data
HTTPError == [ok |-> FALSE]
SetlistsPage(setlist, itemsPerPage, total) ==
    [ok |-> TRUE, setlist |-> setlist, itemsPerPage |-> itemsPerPage,
     total |-> total]

\* SetlistFmSource._parse_date
parse_date(date_str) == date_str.date

NoPerformance == [artist_name |-> ""]

\* SetlistFmSource._setlist_to_performance; the artist_mbid and tour_name
\* of the metadata are None
setlist_to_performance(setlist) ==
    LET event_date == parse_date(setlist.eventDate)
    IN  IF event_date = NoDate THEN NoPerformance
        ELSE [artist_name |-> setlist.artist,
              venue_name |-> "CBGB",
              performance_date |-> event_date,
              performance_date_range |-> NoRange,
              confidence_score |-> 100,
              metadata |-> [setlist_id |-> StrValue(setlist.id)]]

\* the conversion loop of get_performances
RECURSIVE to_performances(_, _, _, _, _)
to_performances(all_setlists_, start_date, end_date, i, done) ==
    IF i > Len(all_setlists_) THEN done
    ELSE LET perf == setlist_to_performance(all_setlists_[i])
             kept == IF perf = NoPerformance THEN FALSE
                     ELSE IF start_date # NoDate /\ end_date # NoDate
                     THEN overlaps_range(perf, start_date, end_date)
                     ELSE TRUE
         IN  to_performances(all_setlists_, start_date, end_date, i + 1,
                             IF kept THEN Append(done, perf) ELSE done)

\* mutant: the number of pages is rounded down
total_pages_rounded_down(data_) ==
    LET items_per_page == dict_get(data_.itemsPerPage, 20)
        total == dict_get(data_.total, 0)
    IN  IF items_per_page > 0 THEN total \div items_per_page ELSE 1

\* total_pages after a response
total_pages_of(data_) ==
    LET items_per_page == dict_get(data_.itemsPerPage, 20)
        total == dict_get(data_.total, 0)
    IN  IF items_per_page > 0
        THEN (total + items_per_page - 1) \div items_per_page
        ELSE 1

\* date.isoformat() of a date, NULL for None
NULL == "NULL"
isoformat(d) == IF d = NoDate THEN NULL ELSE DateStr(d)

\* the columns venue_id, source_name, start_date, end_date of a row
CacheKey(venue_id, start_date, end_date) ==
    <<venue_id, "setlist.fm", isoformat(start_date), isoformat(end_date)>>

\* json.dumps([p.model_dump() for p in performances], default=str): the date
\* of a record is written as its string
RECURSIVE json_dumps(_, _, _)
json_dumps(perfs, i, done) ==
    IF i > Len(perfs) THEN done
    ELSE json_dumps(perfs, i + 1,
             Append(done, [perfs[i] EXCEPT
                 !.performance_date = DateStr(perfs[i].performance_date)]))

\* the date a date string is validated to
date_fromisoformat(s) == CHOOSE d \in 1..(MaxDay + 1) : DateStr(d) = s

\* [Performance.model_validate(p) for p in json.loads(performances_json)]
RECURSIVE json_loads(_, _, _)
json_loads(json, i, done) ==
    IF i > Len(json) THEN done
    ELSE json_loads(json, i + 1,
             Append(done, [json[i] EXCEPT
                 !.performance_date = date_fromisoformat(json[i].performance_date)]))

\* the rows of the performances table the SELECT of Cache.get_performances
\* matches
matching_rows(rows, key) == {i \in 1..Len(rows) : rows[i].key = key}

\* Cache.get_performances, fetchone() giving the row at position i of the
\* table (0: no row); None is the empty list, which the caller treats alike
Cache_get_performances(rows, i, expired) ==
    IF i # 0 /\ ~expired THEN json_loads(rows[i].performances_json, 1, <<>>)
    ELSE <<>>

\* the table without the rows of the set gone
RECURSIVE delete_rows(_, _, _, _)
delete_rows(rows, gone, i, done) ==
    IF i > Len(rows) THEN done
    ELSE delete_rows(rows, gone, i + 1,
                     IF i \in gone THEN done ELSE Append(done, rows[i]))

\* Cache.set_performances: INSERT OR REPLACE deletes the row that conflicts
\* on UNIQUE(venue_id, source_name, start_date, end_date) and inserts the new
\* one; a row with a NULL date conflicts with no row. The field complete is
\* history: every page of the list was fetched.
Cache_set_performances(rows, key, perfs, complete) ==
    LET conflicting == IF key[3] = NULL \/ key[4] = NULL THEN {}
                       ELSE matching_rows(rows, key)
    IN  Append(delete_rows(rows, conflicting, 1, <<>>),
               [key |-> key, performances_json |-> json_dumps(perfs, 1, <<>>),
                complete |-> complete])

-----------------------------------------------------------------------------
(* pipeline.py: Pipeline.run *)

\* the datetime.date of a proleptic ordinal of the first month of year 1,
\* None for None
date_of_ordinal(d) == IF d = NoDate THEN NoReleaseDate ELSE <<1, 1, d>>

\* Step 4 of run: the positions of filtered_performances whose records go to
\* unique_performances
RECURSIVE deduplicate(_, _, _, _)
deduplicate(filtered, i, seen_artists, unique) ==
    IF i > Len(filtered) THEN unique
    ELSE LET artist_key == str_lower(filtered[i].artist_name)
         IN  IF artist_key \notin seen_artists
             THEN deduplicate(filtered, i + 1, seen_artists \cup {artist_key},
                              Append(unique, i))
             ELSE deduplicate(filtered, i + 1, seen_artists, unique)

\* dict.update: the keys of other replace those of metadata
dict_update(metadata, other) ==
    [k \in DOMAIN metadata \cup DOMAIN other |->
        IF k \in DOMAIN other THEN other[k] ELSE metadata[k]]

\* Step 5 of run: perf.metadata.update(enrichment) on the records at the
\* positions kept; the records are those of filtered_performances
enrich(filtered, kept, enrichment) ==
    [i \in 1..Len(filtered) |->
        IF \E k \in 1..Len(kept) : kept[k] = i
        THEN [filtered[i] EXCEPT !.metadata = dict_update(@, enrichment)]
        ELSE filtered[i]]

\* the records at the positions kept
records_at(filtered, kept) == [k \in 1..Len(kept) |-> filtered[kept[k]]]

\* [t.spotify_id for t in all_tracks]
track_ids_of(all_tracks_) ==
    [i \in 1..Len(all_tracks_) |-> all_tracks_[i].spotify_id]

\* the arguments of run
RunArgs(start_date, end_date, strategy_, min_confidence, enrich_metadata) ==
    [start_date |-> start_date, end_date |-> end_date, strategy |-> strategy_,
     min_confidence |-> min_confidence, enrich_metadata |-> enrich_metadata]

\* the entries of the history of the calls run makes on the Spotify client
GetTracksCall(name, strategy_, date_, outcome) ==
    [op |-> "get_tracks_for_artist", artist_name |-> name,
     strategy |-> strategy_, performance_date |-> date_,
     raised |-> outcome.raised, tracks |-> outcome.tracks]
CreatePlaylistCall(raised) == [op |-> "create_playlist", raised |-> raised]
AddTracksCall(playlist_id, track_ids) ==
    [op |-> "add_tracks_to_playlist", playlist_id |-> playlist_id,
     track_ids |-> track_ids]

\* how run ends: with an exception, or with a PlaylistResult
RunRaised(e, message) == [raised |-> e, message |-> message]
PlaylistResult(playlist_id, perfs, tracks_, excluded_items) ==
    [raised |-> "none", playlist_id |-> playlist_id, performances |-> perfs,
     tracks |-> tracks_, excluded_items |-> excluded_items,
     total_artists |-> Len(perfs)]

-----------------------------------------------------------------------------
(* Inputs *)

Days == 1..MaxDay
Ranges == {NoRange} \cup (Days \X Days)
Scores == {0, 49, 50, 100}
Thresholds == {-1, 0, 50, 100, 101}
GenreValues ==
    {NoValue, StrValue("Punk"), StrValue("jazz"), ListValue(<<"Jazz", "Rock">>)}

\* every record over the field domains
Records ==
    {Performance(a, d, r, s, g) :
        a \in {"Ramones", "Blondie"}, d \in Days \cup {NoDate}, r \in Ranges,
        s \in Scores, g \in GenreValues}

\* the records lists are built from: one per combination of missing, exact and
\* ranged dates with low and high scores and absent, string and list genres
ListRecords ==
    {Performance("Ramones", 2, NoRange, 100, StrValue("Punk")),
     Performance("Blondie", 3, NoRange, 49, StrValue("jazz")),
     Performance("Television", NoDate, <<1, 2>>, 50, NoValue),
     Performance("Talking Heads", NoDate, NoRange, 100,
                 ListValue(<<"Jazz", "Rock">>)),
     Performance("ramones", 1, <<2, 3>>, 0, StrValue("Punk"))}

SeqsUpTo(S, n) == UNION {[1..k -> S] : k \in 0..n}

ListInputs == SeqsUpTo(ListRecords, MaxLen)
SingleInputs == {<<r>> : r \in Records}

FieldNames == {"genre", "country"}
AllowedSets == {{"punk", "rock"}, {"Punk"}}

\* the filters chains are built from
ChainFilters ==
    {DateRangeFilter(1, 2), DateRangeFilter(2, 3),
     ConfidenceFilter_init(50).value,
     FieldFilter("genre", {"punk", "rock"}, TRUE, FALSE),
     FieldFilter("genre", {"Punk"}, FALSE, TRUE)}

NoResult == [op |-> "none", by |-> <<>>, included |-> <<>>, excluded |-> <<>>]

\* the first parts of the release-date strings: years near and far from the
\* performance, years date() rejects, and parts that are no year
YearParts ==
    {Digits(1977), Digits(1978), Digits(1985), Digits(1960), Digits(78),
     Digits(0), Digits(10000), Part("3000000000", TRUE, <<INT_MAX + 1>>),
     Padded(1978), Word("abcd"), Word("")}
MonthParts == {Digits(2), Digits(6), Digits(13), Padded(6), Word("xx")}
DayParts == {Digits(15), Digits(30), Digits(0), Word("")}

\* the release-date strings: "", and one, two, three and four parts
ReleaseStrs ==
    {<<y>> : y \in YearParts}
        \cup {<<y, m>> : y \in YearParts, m \in MonthParts}
        \cup {<<y, m, d>> : y \in YearParts, m \in MonthParts, d \in DayParts}
        \cup {<<Digits(1978), Digits(6), Digits(15), x>> :
                  x \in {Digits(1), Word("T00:00")}}

Popularities == {10, 61}

\* every track dictionary over the field domains
TrackDicts ==
    {TrackData("t", r, p) : r \in ReleaseStrs, p \in Popularities}
        \cup {TrackDataUndated("t", p) : p \in Popularities}

\* the tracks catalogs are built from: releases before, in and after the year
\* of the performance, two of them equally far from it, an album without a
\* release date and a release date with a month that does not exist
ListTracks ==
    {TrackData("a", <<Digits(1977)>>, 90),
     TrackData("b", <<Digits(1978), Digits(6), Digits(15)>>, 70),
     TrackData("c", <<Digits(1985), Digits(3)>>, 55),
     TrackData("d", <<Digits(1979)>>, 40),
     TrackDataUndated("e", 10),
     TrackData("f", <<Digits(1978), Digits(13)>>, 61)}

\* the lists without repetition of at most n elements of S
InjSeqsUpTo(S, n) ==
    {q \in SeqsUpTo(S, n) : \A a, b \in 1..Len(q) : a # b => q[a] # q[b]}

Catalogs == InjSeqsUpTo(ListTracks, MaxTracks) \cup {<<t>> : t \in TrackDicts}
PerformanceDates == {NoReleaseDate, <<1978, 9, 1>>}
Counts == 0..MaxCount
MaxPopularities == {60, 5}

NoSelection == [raised |-> "none", value |-> <<>>, scores |-> <<>>, drawn |-> <<>>]

\* no select_tracks() call is under way or made
StrategyIdle ==
    /\ tracks = <<>>
    /\ performance_date = NoReleaseDate
    /\ count = 0
    /\ strategy = NoStrategy
    /\ selection = NoSelection

\* the strategy names: each key of the strategies dictionary, with and
\* without a count and in other spellings, names that are no key, names
\* without a usable count, and names that hold "era" without being a key
StrategyNames ==
    {"top", "top-3", "TOP-2", "top_n", "Top_N-1", "top-0", "top-x", "top-",
     "top-2-9", "random", "random-2", "random_n-1", "era-2", "era-0",
     "ERA_weighted", "era_weighted-1", "deep", "deep-4", "Deep_Cuts-2",
     "xyz-2", "general-2", "", "-", "-2"}

KwargsPool == {NoKwargs, Kwargs(40)}

\* the top tracks of an artist, most popular first; one list has a track
\* with a release year beyond a C int
TopTracks ==
    {<<>>,
     <<TrackData("o", <<Part("3000000000", TRUE, <<INT_MAX + 1>>)>>, 80)>>,
     <<TrackData("a", <<Digits(1977)>>, 90)>>,
     <<TrackData("a", <<Digits(1977)>>, 90),
       TrackData("b", <<Digits(1978), Digits(6), Digits(15)>>, 70),
       TrackData("c", <<Digits(1985), Digits(3)>>, 55)>>}

\* the albums of an artist, in the order Spotify lists them
AlbumLists ==
    {<<>>,
     <<Album("Late", <<Digits(1985), Digits(3)>>, <<"c", "x">>),
       Album("Early", <<Digits(1977)>>, <<"a">>)>>}

SpotifyAnswers ==
    {SpotifyAnswer(artist, top_tracks, albums) :
        artist \in {NoArtist, Artist("Ramones", "id1"), Artist("Ramones", "")},
        top_tracks \in TopTracks, albums \in AlbumLists}

NoClientResult ==
    [op |-> "none", raised |-> "none", tracks |-> <<>>, excluded |-> <<>>]

\* no client call is under way or made
ClientIdle ==
    /\ strategy_name = ""
    /\ kwargs = NoKwargs
    /\ artist_name = ""
    /\ spotify = SpotifyAnswer(NoArtist, <<>>, <<>>)
    /\ endpoint = "none"
    /\ client_result = NoClientResult

\* the totals and the page sizes a response reports
Totals == (-1)..MaxTotal
ItemsPerPages == {Absent, Present(-1), Present(0), Present(1), Present(2)}

\* the setlist the server holds at position p: the second one has an
\* eventDate strptime rejects
SetlistOn(p) ==
    Setlist("s" \o ToString(p),
            CASE p = 1 -> "Ramones" [] p = 2 -> "Blondie" [] p = 3 -> "ramones"
              [] OTHER -> "Television",
            IF p = 2 THEN EventDate("", NoDate)
            ELSE EventDate(DateStr((p % MaxDay) + 1), (p % MaxDay) + 1))

\* what the server can answer to the request of page p: an HTTP error, or a
\* page with the setlist at p or with none, with or without the keys
\* itemsPerPage and total
Responses(p) ==
    {HTTPError}
        \cup {SetlistsPage(found, ipp, t) :
                  found \in {<<>>, <<SetlistOn(p)>>}, ipp \in ItemsPerPages,
                  t \in {Absent} \cup {Present(n) : n \in Totals}}

VenueIds == {"v1"}
DateWindows == {<<NoDate, NoDate>>, <<2, MaxDay>>}

NoSourceArgs == [venue_id |-> "", start_date |-> NoDate, end_date |-> NoDate]
NoSourceResult ==
    [op |-> "none", value |-> <<>>, cached |-> FALSE, later |-> FALSE]

\* get_performances() is not called, and the cache is empty
SourceIdle ==
    /\ source_pc = "idle"
    /\ source_args = NoSourceArgs
    /\ page = 0
    /\ total_pages = 0
    /\ all_setlists = <<>>
    /\ failed = FALSE
    /\ pages_requested = <<>>
    /\ cache = <<>>
    /\ source_result = NoSourceResult

\* the arguments of run: a window, a strategy name, a threshold (one that
\* ConfidenceFilter rejects among them) and the enrichment switch
RunArgsPool ==
    {RunArgs(1, 2, s, m, e) :
        s \in {"top-2", "top-0", "era-1"}, m \in {0, 50, 101}, e \in BOOLEAN}

\* what search_venues returns
VenueLists == {<<>>, <<"v1">>}

\* what the MusicBrainz client returns for an artist
Enrichments == {[genre |-> ListValue(<<"punk">>)]}

\* what Spotify answers for an artist of the run
PipelineAnswers ==
    {SpotifyAnswer(NoArtist, <<>>, <<>>),
     SpotifyAnswer(Artist("Ramones", "id1"), <<>>, <<>>)}
        \cup {SpotifyAnswer(Artist("Ramones", "id1"), top_tracks, albums) :
                  top_tracks \in TopTracks \ {<<>>},
                  albums \in AlbumLists \ {<<>>}}

NoRunArgs == RunArgs(NoDate, NoDate, "", 0, FALSE)
NoRunResult == RunRaised("none", "")

\* run() is not called
PipelineIdle ==
    /\ pipeline_pc = "idle"
    /\ pipeline_args = NoRunArgs
    /\ venues = <<>>
    /\ filtered_performances = <<>>
    /\ unique_performances = <<>>
    /\ artist_index = 0
    /\ all_tracks = <<>>
    /\ run_excluded = <<>>
    /\ spotify_calls = <<>>
    /\ pipeline_result = NoRunResult

\* no filter is constructed or applied
FilterIdle ==
    /\ performances = <<>>
    /\ flt = NoFilter
    /\ error = "none"
    /\ filters = <<>>
    /\ result = NoResult
    /\ calls = <<>>
    /\ requested = <<>>

-----------------------------------------------------------------------------
(* Construction of one filter and its application *)

InitFilter ==
    /\ performances \in SingleInputs \cup ListInputs
    /\ flt = NoFilter
    /\ error = "none"
    /\ filters = <<>>
    /\ result = NoResult
    /\ calls = <<>>
    /\ requested = <<>>
    /\ StrategyIdle
    /\ ClientIdle
    /\ SourceIdle
    /\ PipelineIdle

Fresh == flt = NoFilter /\ error = "none"

\* f = ConfidenceFilter(min_confidence)
NewConfidenceFilter(min_confidence) ==
    /\ Fresh
    /\ LET made == ConfidenceFilter_init(min_confidence)
       IN  /\ error' = made.raised
           /\ flt' = made.value
    /\ requested' = <<min_confidence>>
    /\ UNCHANGED <<performances, filters, result, calls>>
    /\ UNCHANGED notFilterVars

\* f = DateRangeFilter(start_date, end_date)
NewDateRangeFilter(start_date, end_date) ==
    /\ Fresh
    /\ flt' = DateRangeFilter(start_date, end_date)
    /\ UNCHANGED <<performances, error, filters, result, calls, requested>>
    /\ UNCHANGED notFilterVars

\* f = FieldFilter(field, allowed_values, case_insensitive=.., include_missing=..)
NewFieldFilter(field, allowed_values, case_insensitive, include_missing) ==
    /\ Fresh
    /\ flt' = FieldFilter(field, allowed_values, case_insensitive,
                          include_missing)
    /\ UNCHANGED <<performances, error, filters, result, calls, requested>>
    /\ UNCHANGED notFilterVars

\* f.apply(performances)
ApplyFilter ==
    /\ flt # NoFilter
    /\ result = NoResult
    /\ LET r == Filter_apply(flt, performances)
       IN  result' = [op |-> "filter", by |-> <<flt>>,
                      included |-> r.included, excluded |-> r.excluded]
    /\ performances' = Filter_apply_argument(flt, performances)
    /\ UNCHANGED <<flt, error, filters, calls, requested>>
    /\ UNCHANGED notFilterVars

NextFilter ==
    \/ \E m \in Thresholds : NewConfidenceFilter(m)
    \/ \E s \in Days, e \in Days : NewDateRangeFilter(s, e)
    \/ \E f \in FieldNames, a \in AllowedSets, ci \in BOOLEAN, im \in BOOLEAN :
           NewFieldFilter(f, a, ci, im)
    \/ ApplyFilter

FilterSpec == InitFilter /\ [][NextFilter]_vars

-----------------------------------------------------------------------------
(* A FilterChain built by add() calls and applied *)

Init ==
    /\ performances \in ListInputs
    /\ flt = NoFilter
    /\ error = "none"
    /\ filters = <<>>
    /\ result = NoResult
    /\ calls = <<>>
    /\ requested = <<>>
    /\ StrategyIdle
    /\ ClientIdle
    /\ SourceIdle
    /\ PipelineIdle

\* chain.add(filter)
FilterChain_add(f) ==
    /\ Len(filters) < MaxChain
    /\ filters' = Append(filters, f)
    /\ UNCHANGED <<performances, flt, error, result, calls, requested>>
    /\ UNCHANGED notFilterVars

\* chain.apply(performances)
ApplyChain ==
    /\ LET r == FilterChain_apply(filters, performances)
       IN  /\ result' = [op |-> "chain", by |-> filters,
                         included |-> r.included, excluded |-> r.excluded]
           /\ calls' = r.calls
    /\ performances' = FilterChain_apply_argument(filters, performances)
    /\ filters' = FilterChain_apply_filters(filters)
    /\ UNCHANGED <<flt, error, requested>>
    /\ UNCHANGED notFilterVars

\* chain.filters[i].apply(performances)
ApplyOne(i) ==
    /\ LET r == Filter_apply(filters[i], performances)
       IN  result' = [op |-> "filter", by |-> <<filters[i]>>,
                      included |-> r.included, excluded |-> r.excluded]
    /\ calls' = <<>>
    /\ performances' = Filter_apply_argument(filters[i], performances)
    /\ UNCHANGED <<flt, error, filters, requested>>
    /\ UNCHANGED notFilterVars

Next ==
    \/ \E f \in ChainFilters : FilterChain_add(f)
    \/ ApplyChain
    \/ \E i \in 1..Len(filters) : ApplyOne(i)

Spec == Init /\ [][Next]_vars

-----------------------------------------------------------------------------
(* One select_tracks() call on a strategy *)

InitStrategy ==
    /\ FilterIdle
    /\ ClientIdle
    /\ tracks \in Catalogs
    /\ performance_date \in PerformanceDates
    /\ count \in Counts
    /\ strategy = NoStrategy
    /\ selection = NoSelection
    /\ SourceIdle
    /\ PipelineIdle

\* the outcome of a call with the scores it computed and the positions
\* random.sample drew
Selection(outcome, scores, drawn) ==
    [raised |-> outcome.raised, value |-> outcome.value, scores |-> scores,
     drawn |-> drawn]

\* TopNStrategy().select_tracks(id, name, tracks, performance_date, count)
SelectTopN ==
    /\ strategy = NoStrategy
    /\ strategy' = TopNStrategy
    /\ selection' = Selection(
           TopNStrategy_select_tracks(TopNStrategy, tracks, performance_date,
                                      count), <<>>, <<>>)
    /\ UNCHANGED <<tracks, performance_date, count>>
    /\ UNCHANGED notStrategyVars

\* RandomNStrategy().select_tracks(id, name, tracks, performance_date, count)
SelectRandomN ==
    /\ strategy = NoStrategy
    /\ strategy' = RandomNStrategy
    /\ \E sample \in DrawsFor(tracks, count) :
           selection' = Selection(
               RandomNStrategy_select_tracks(RandomNStrategy, tracks,
                   performance_date, count, sample), <<>>, sample)
    /\ UNCHANGED <<tracks, performance_date, count>>
    /\ UNCHANGED notStrategyVars

\* EraWeightedStrategy().select_tracks(id, name, tracks, performance_date, count)
SelectEraWeighted ==
    /\ strategy = NoStrategy
    /\ strategy' = EraWeightedStrategy
    /\ selection' = Selection(
           EraWeightedStrategy_select_tracks(EraWeightedStrategy, tracks,
                                             performance_date, count),
           EraWeightedStrategy_scores(tracks, performance_date), <<>>)
    /\ UNCHANGED <<tracks, performance_date, count>>
    /\ UNCHANGED notStrategyVars

\* DeepCutsStrategy(max_popularity).select_tracks(id, name, tracks,
\* performance_date, count)
SelectDeepCuts(max_popularity) ==
    /\ strategy = NoStrategy
    /\ strategy' = DeepCutsStrategy(max_popularity)
    /\ \E sample \in DrawsFor(deep_cuts_of(strategy', tracks, count), count) :
           selection' = Selection(
               DeepCutsStrategy_select_tracks(strategy', tracks,
                   performance_date, count, sample), <<>>, sample)
    /\ UNCHANGED <<tracks, performance_date, count>>
    /\ UNCHANGED notStrategyVars

NextStrategy ==
    \/ SelectTopN
    \/ SelectRandomN
    \/ SelectEraWeighted
    \/ \E max_popularity \in MaxPopularities : SelectDeepCuts(max_popularity)

StrategySpec == InitStrategy /\ [][NextStrategy]_vars

-----------------------------------------------------------------------------
(* One get_strategy() or get_tracks_for_artist() call *)

InitClient ==
    /\ FilterIdle
    /\ strategy_name \in StrategyNames
    /\ kwargs \in KwargsPool
    /\ artist_name = "Ramones"
    /\ spotify \in SpotifyAnswers
    /\ performance_date \in PerformanceDates
    /\ tracks = <<>>
    /\ count = 0
    /\ strategy = NoStrategy
    /\ selection = NoSelection
    /\ endpoint = "none"
    /\ client_result = NoClientResult
    /\ SourceIdle
    /\ PipelineIdle

\* strategy = get_strategy(strategy_name, **kwargs)
GetStrategy ==
    /\ client_result = NoClientResult
    /\ strategy' = get_strategy(strategy_name, kwargs)
    /\ client_result' = [NoClientResult EXCEPT !.op = "get_strategy"]
    /\ UNCHANGED <<tracks, performance_date, count, selection>>
    /\ UNCHANGED <<strategy_name, kwargs, artist_name, spotify, endpoint>>
    /\ UNCHANGED notClientVars

\* client.get_tracks_for_artist(artist_name, strategy_name, performance_date):
\* count, strategy, tracks and selection are the arguments and the outcome of
\* the select_tracks() call it makes, if it makes one
GetTracksForArtist ==
    /\ client_result = NoClientResult
    /\ LET found == spotify.artist # NoArtist /\ spotify.artist.spotify_id # ""
           fetched == IF found THEN fetched_tracks(strategy_name, spotify)
                      ELSE <<>>
       IN  /\ count' = count_of(strategy_name)
           /\ strategy' = get_strategy(strategy_name, NoKwargs)
           /\ tracks' = fetched
           /\ endpoint' = IF ~found THEN "none"
                          ELSE IF uses_catalog(strategy_name) THEN "catalog"
                          ELSE "top_tracks"
           /\ \E sample \in ClientDraws(strategy_name, spotify) :
                  /\ client_result' =
                         get_tracks_for_artist(artist_name, strategy_name,
                             performance_date, spotify, sample)
                  /\ selection' =
                         IF fetched = <<>> THEN NoSelection
                         ELSE Selection(
                                  Strategy_select_tracks(strategy', fetched,
                                      performance_date, count', sample),
                                  IF strategy'.kind = "era_weighted"
                                  THEN EraWeightedStrategy_scores(fetched,
                                           performance_date)
                                  ELSE <<>>, sample)
    /\ UNCHANGED <<performance_date, strategy_name, kwargs, artist_name, spotify>>
    /\ UNCHANGED notClientVars

NextClient ==
    \/ GetStrategy
    \/ GetTracksForArtist

ClientSpec == InitClient /\ [][NextClient]_vars

-----------------------------------------------------------------------------
(* SetlistFmSource.get_performances(): a call, and one later call *)

InitSource ==
    /\ SourceIdle
    /\ FilterIdle
    /\ StrategyIdle
    /\ ClientIdle
    /\ PipelineIdle

\* get_performances(venue_id, start_date, end_date) up to its page loop;
\* fetchone() gives the row at position i, which has expired or not
StartGetPerformances(venue_id, start_date, end_date, i, expired) ==
    /\ source_pc = "idle" \/ (source_pc = "done" /\ ~source_result.later)
    /\ LET rows == matching_rows(cache,
                                 CacheKey(venue_id, start_date, end_date))
       IN  i \in IF rows = {} THEN {0} ELSE rows
    /\ LET cached == Cache_get_performances(cache, i, expired)
       IN  /\ source_pc' = IF cached # <<>> THEN "done" ELSE "loop"
           /\ source_result' = [op |-> "get_performances", value |-> cached,
                                cached |-> cached # <<>>,
                                later |-> source_pc = "done"]
           /\ page' = IF cached # <<>> THEN 0 ELSE 1
           /\ total_pages' = IF cached # <<>> THEN 0 ELSE 1
    /\ source_args' = [venue_id |-> venue_id, start_date |-> start_date,
                       end_date |-> end_date]
    /\ all_setlists' = <<>>
    /\ failed' = FALSE
    /\ pages_requested' = <<>>
    /\ UNCHANGED cache
    /\ UNCHANGED notSourceVars

\* one pass of the page loop, the server answering response
FetchPage(response) ==
    /\ source_pc = "loop"
    /\ ~failed
    /\ page <= total_pages
    /\ pages_requested' = Append(pages_requested, page)
    /\ IF response.ok
       THEN /\ all_setlists' = all_setlists \o response.setlist
            /\ total_pages' = total_pages_of(response)
            /\ page' = page + 1
            /\ UNCHANGED failed
       ELSE /\ failed' = TRUE
            /\ UNCHANGED <<all_setlists, total_pages, page>>
    /\ UNCHANGED <<source_pc, source_args, cache, source_result>>
    /\ UNCHANGED notSourceVars

\* the rest of get_performances() after the loop: the conversion, the
\* caching and the return
ReturnPerformances ==
    /\ source_pc = "loop"
    /\ failed \/ page > total_pages
    /\ LET found == to_performances(all_setlists, source_args.start_date,
                                    source_args.end_date, 1, <<>>)
       IN  /\ cache' = IF found # <<>>
                       THEN Cache_set_performances(cache,
                                CacheKey(source_args.venue_id,
                                         source_args.start_date,
                                         source_args.end_date),
                                found, ~failed)
                       ELSE cache
           /\ source_result' = [source_result EXCEPT !.value = found]
    /\ source_pc' = "done"
    /\ UNCHANGED <<source_args, page, total_pages, all_setlists, failed,
                   pages_requested>>
    /\ UNCHANGED notSourceVars

\* the request of the page the loop is at
RequestPage == \E response \in Responses(page) : FetchPage(response)

NextSource ==
    \/ \E v \in VenueIds, w \in DateWindows, i \in 0..Len(cache),
          expired \in BOOLEAN :
           StartGetPerformances(v, w[1], w[2], i, expired)
    \/ RequestPage
    \/ ReturnPerformances

SourceSpec == InitSource /\ [][NextSource]_vars

\* The thread running get_performances() takes its next step: a request
\* returns or raises within the timeout of the client (30 seconds).
SourceLiveSpec ==
    SourceSpec /\ WF_vars(RequestPage) /\ WF_vars(ReturnPerformances)

-----------------------------------------------------------------------------
(* One Pipeline.run() call *)

InitPipeline ==
    /\ PipelineIdle
    /\ FilterIdle
    /\ StrategyIdle
    /\ ClientIdle
    /\ SourceIdle

\* run(...) up to its track loop (steps 1 to 5): search_venues returns
\* found, get_performances returns fetched and the MusicBrainz client
\* returns enrichment
RunToTrackLoop(args, found, fetched, enrichment) ==
    /\ pipeline_pc = "idle"
    /\ pipeline_args' = args
    /\ venues' = found
    /\ LET made == ConfidenceFilter_init(args.min_confidence)
           chain == <<DateRangeFilter(args.start_date, args.end_date),
                      made.value>>
           filter_result == FilterChain_apply(chain, fetched)
           kept == deduplicate(filter_result.included, 1, {}, <<>>)
           filtered == IF args.enrich_metadata
                       THEN enrich(filter_result.included, kept, enrichment)
                       ELSE filter_result.included
       IN  IF found = <<>>
           THEN /\ pipeline_pc' = "ended"
                /\ pipeline_result' = RunRaised("ValueError", "No venues found")
                /\ UNCHANGED <<filtered_performances, unique_performances,
                               artist_index, run_excluded>>
           ELSE IF made.raised # "none"
           THEN /\ pipeline_pc' = "ended"
                /\ pipeline_result' = RunRaised(made.raised, "min_confidence")
                /\ UNCHANGED <<filtered_performances, unique_performances,
                               artist_index, run_excluded>>
           ELSE /\ pipeline_pc' = "tracks"
                /\ filtered_performances' = filtered
                /\ unique_performances' = records_at(filtered, kept)
                /\ artist_index' = 1
                /\ run_excluded' = filter_result.excluded
                /\ UNCHANGED pipeline_result
    /\ UNCHANGED <<all_tracks, spotify_calls>>
    /\ UNCHANGED notPipelineVars

\* what self.spotify.get_tracks_for_artist can give for a record, Spotify
\* answering answer: one outcome per draw of random.sample
tracks_for_performance(perf, strategy_, answer) ==
    {get_tracks_for_artist(perf.artist_name, strategy_,
                           date_of_ordinal(perf.performance_date), answer,
                           sample) : sample \in ClientDraws(strategy_, answer)}

\* one pass of the track loop (step 6), Spotify answering answer
GetTracks(answer) ==
    /\ pipeline_pc = "tracks"
    /\ artist_index <= Len(unique_performances)
    /\ \E outcome \in tracks_for_performance(unique_performances[artist_index],
                           pipeline_args.strategy, answer) :
           /\ spotify_calls' =
                  Append(spotify_calls,
                         GetTracksCall(
                             unique_performances[artist_index].artist_name,
                             pipeline_args.strategy,
                             date_of_ordinal(unique_performances[artist_index]
                                                 .performance_date),
                             outcome))
           /\ IF outcome.raised # "none"
              THEN /\ pipeline_pc' = "ended"
                   /\ pipeline_result' = RunRaised(outcome.raised, "")
                   /\ UNCHANGED <<all_tracks, run_excluded, artist_index>>
              ELSE /\ all_tracks' = all_tracks \o outcome.tracks
                   /\ run_excluded' = run_excluded \o outcome.excluded
                   /\ artist_index' = artist_index + 1
                   /\ UNCHANGED <<pipeline_pc, pipeline_result>>
    /\ UNCHANGED <<pipeline_args, venues, filtered_performances,
                   unique_performances>>
    /\ UNCHANGED notPipelineVars

\* after the track loop (step 7): the ValueError for no track, or
\* create_playlist, which returns or raises SpotifyException
CreatePlaylist(raised) ==
    /\ pipeline_pc = "tracks"
    /\ artist_index > Len(unique_performances)
    /\ IF all_tracks = <<>>
       THEN /\ raised = "none"
            /\ pipeline_pc' = "ended"
            /\ pipeline_result' = RunRaised("ValueError", "No tracks found")
            /\ UNCHANGED spotify_calls
       ELSE /\ spotify_calls' = Append(spotify_calls, CreatePlaylistCall(raised))
            /\ pipeline_pc' = IF raised = "none" THEN "add" ELSE "ended"
            /\ pipeline_result' = IF raised = "none" THEN pipeline_result
                                  ELSE RunRaised(raised, "")
    /\ UNCHANGED <<pipeline_args, venues, filtered_performances,
                   unique_performances, artist_index, all_tracks, run_excluded>>
    /\ UNCHANGED notPipelineVars

\* step 8 and the return: add_tracks_to_playlist and the PlaylistResult
AddTracks ==
    /\ pipeline_pc = "add"
    /\ spotify_calls' = Append(spotify_calls,
                               AddTracksCall("p1", track_ids_of(all_tracks)))
    /\ pipeline_pc' = "ended"
    /\ pipeline_result' = PlaylistResult("p1", unique_performances, all_tracks,
                                         run_excluded)
    /\ UNCHANGED <<pipeline_args, venues, filtered_performances,
                   unique_performances, artist_index, all_tracks, run_excluded>>
    /\ UNCHANGED notPipelineVars

\* the next step of the thread in the track loop or after it
RunOn ==
    \/ \E answer \in PipelineAnswers : GetTracks(answer)
    \/ \E raised \in {"none", "SpotifyException"} : CreatePlaylist(raised)
    \/ AddTracks

NextPipeline ==
    \/ \E args \in RunArgsPool, found \in VenueLists, fetched \in ListInputs,
          enrichment \in Enrichments :
           RunToTrackLoop(args, found, fetched, enrichment)
    \/ RunOn

PipelineSpec == InitPipeline /\ [][NextPipeline]_vars

\* The thread running run() takes its next step.
PipelineLiveSpec == PipelineSpec /\ WF_vars(RunOn)

-----------------------------------------------------------------------------
(* Vocabulary of the properties *)

Range(s) == {s[i] : i \in 1..Len(s)}

Labels(perfs) == [i \in 1..Len(perfs) |-> PerfLabel(perfs[i])]
Names(excluded) == [i \in 1..Len(excluded) |-> excluded[i].name]

\* the elements of s at the indices i..Len(s) that the mask c gives the value b
RECURSIVE Masked(_, _, _, _)
Masked(s, c, b, i) ==
    IF i > Len(s) THEN <<>>
    ELSE (IF c[i] = b THEN <<s[i]>> ELSE <<>>) \o Masked(s, c, b, i + 1)

\* inc and exc split inp: some assignment of every index of inp to one side
\* yields inc as the records of one side and exc as one item, carrying the
\* record's label, per record of the other side
ClassifiedOnce(inp, inc, exc) ==
    \E c \in [1..Len(inp) -> BOOLEAN] :
        /\ inc = Masked(inp, c, TRUE, 1)
        /\ Names(exc) = Labels(Masked(inp, c, FALSE, 1))

ByFilter(kind) == result.op = "filter" /\ result.by[1].kind = kind

IsIncluded(perf) == perf \in Range(result.included)

\* the items of the result that speak of perf
ItemsOf(perf) ==
    {j \in 1..Len(result.excluded) : result.excluded[j].name = PerfLabel(perf)}

-----------------------------------------------------------------------------
(* Properties of one filter *)

\* C1: apply() of a ConfidenceFilter, DateRangeFilter or FieldFilter puts
\* every input record in exactly one of included and excluded, so that
\* len(included) + len(excluded) = len(input).
C1_FilterClassifiesEachRecordOnce ==
    result.op = "filter" =>
        /\ ClassifiedOnce(performances, result.included, result.excluded)
        /\ Len(result.included) + Len(result.excluded) = Len(performances)

C1_Witness ==
    /\ result.op = "filter"
    /\ Len(performances) = 2
    /\ Len(result.included) = 1
    /\ Len(result.excluded) = 1

\* C6: a DateRangeFilter includes a record with an exact date d iff
\* start <= d <= end, whatever range the record also carries.
C6_ExactDateDecides ==
    ByFilter("date_range") =>
        \A i \in 1..Len(performances) :
            LET perf == performances[i]
                self == result.by[1]
            IN  perf.performance_date # NoDate =>
                    (IsIncluded(perf) <=>
                        /\ self.start_date <= perf.performance_date
                        /\ perf.performance_date <= self.end_date)

\* an exact date on the window's last day is included although the record's
\* range lies outside the window
C6_Witness ==
    /\ ByFilter("date_range")
    /\ Len(performances) = 1
    /\ performances[1].performance_date = result.by[1].end_date
    /\ result.by[1].start_date < result.by[1].end_date
    /\ performances[1].performance_date_range # NoRange
    /\ performances[1].performance_date_range[1] > result.by[1].end_date
    /\ result.included = performances

\* C7: a DateRangeFilter includes a record with only a range [rs, re] iff
\* rs <= end and start <= re.
C7_RangeOverlapDecides ==
    ByFilter("date_range") =>
        \A i \in 1..Len(performances) :
            LET perf == performances[i]
                self == result.by[1]
            IN  (perf.performance_date = NoDate
                    /\ perf.performance_date_range # NoRange) =>
                    (IsIncluded(perf) <=>
                        /\ perf.performance_date_range[1] <= self.end_date
                        /\ self.start_date <= perf.performance_date_range[2])

\* a range that starts before the window and ends inside it is included
C7_Witness ==
    /\ ByFilter("date_range")
    /\ Len(performances) = 1
    /\ performances[1].performance_date = NoDate
    /\ performances[1].performance_date_range # NoRange
    /\ performances[1].performance_date_range[1] < result.by[1].start_date
    /\ performances[1].performance_date_range[2] >= result.by[1].start_date
    /\ performances[1].performance_date_range[2] <= result.by[1].end_date
    /\ result.included = performances

\* C8: a record with neither an exact date nor a range is excluded by every
\* DateRangeFilter with the reason "No temporal evidence", and every record
\* included is an input record with the dates it came with.
C8_NoEvidenceExcluded ==
    ByFilter("date_range") =>
        /\ \A i \in 1..Len(performances) :
               LET perf == performances[i]
               IN  (perf.performance_date = NoDate
                       /\ perf.performance_date_range = NoRange) =>
                       /\ ~IsIncluded(perf)
                       /\ ItemsOf(perf) # {}
                       /\ \A j \in ItemsOf(perf) :
                              result.excluded[j].reason =
                                  "No temporal evidence (missing date)"
        /\ \A k \in 1..Len(result.included) :
               /\ result.included[k] \in Range(performances)
               /\ has_valid_date(result.included[k])

C8_Witness ==
    /\ ByFilter("date_range")
    /\ Len(performances) = 1
    /\ performances[1].performance_date = NoDate
    /\ performances[1].performance_date_range = NoRange
    /\ result.included = <<>>
    /\ Len(result.excluded) = 1

\* C9: a ConfidenceFilter includes a record iff its score is at least the
\* threshold; a record below it gets an item named after the filter.
C9_ThresholdInclusive ==
    ByFilter("confidence") =>
        \A i \in 1..Len(performances) :
            LET perf == performances[i]
                self == result.by[1]
            IN  /\ IsIncluded(perf) <=>
                       perf.confidence_score >= self.min_confidence
                /\ perf.confidence_score < self.min_confidence =>
                       /\ ItemsOf(perf) # {}
                       /\ \A j \in ItemsOf(perf) :
                              /\ result.excluded[j].filter_name =
                                     ConfidenceFilter_name(self)
                              /\ result.excluded[j].item_type = "performance"

\* a score equal to the threshold is included
C9_Witness ==
    /\ ByFilter("confidence")
    /\ Len(performances) = 1
    /\ performances[1].confidence_score = result.by[1].min_confidence
    /\ performances[1].confidence_score > 0
    /\ result.included = performances

\* C10: ConfidenceFilter(min_confidence) raises and yields no filter when
\* min_confidence is outside [0,1], and otherwise yields a filter whose
\* threshold is min_confidence itself.
C10_ThresholdValidated ==
    requested # <<>> =>
        LET min_confidence == requested[1]
        IN  IF min_confidence < 0 \/ min_confidence > 100
            THEN /\ error = "ValueError"
                 /\ flt = NoFilter
                 /\ result = NoResult
            ELSE /\ error = "none"
                 /\ flt.kind = "confidence"
                 /\ flt.min_confidence = min_confidence

C10_Witness ==
    /\ requested # <<>>
    /\ requested[1] > 100
    /\ error = "ValueError"

-----------------------------------------------------------------------------
(* Properties of a FilterChain *)

\* the filter's own verdict on one record
Passes(f, perf) == Filter_apply(f, <<perf>>).included = <<perf>>

\* the position in fs of the first filter whose verdict on perf is to exclude
\* it; 0 when every filter of fs includes it
FirstFailing(fs, perf) ==
    LET failing == {k \in 1..Len(fs) : ~Passes(fs[k], perf)}
    IN  IF failing = {} THEN 0
        ELSE CHOOSE k \in failing : \A m \in failing : k <= m

\* for each stage from k on, in chain order, the records of perfs, in their
\* order in perfs, that stage is the first to fail, each as the pair
\* <<label, name of the stage's filter>>
RECURSIVE CreditByStage(_, _, _)
CreditByStage(fs, perfs, k) ==
    IF k > Len(fs) THEN <<>>
    ELSE LET Mine(perf) == FirstFailing(fs, perf) = k
             mine == SelectSeq(perfs, Mine)
         IN  [j \in 1..Len(mine) |-> <<PerfLabel(mine[j]), Filter_name(fs[k])>>]
                 \o CreditByStage(fs, perfs, k + 1)

Credit(excluded) ==
    [j \in 1..Len(excluded) |-> <<excluded[j].name, excluded[j].filter_name>>]

Reverse(s) == [i \in 1..Len(s) |-> s[Len(s) + 1 - i]]

\* every ordering of the filters of fs
Orderings(fs) ==
    {[i \in 1..Len(fs) |-> fs[pi[i]]] : pi \in Permutations(1..Len(fs))}

\* how many items of excluded speak of the record labelled n
CountNamed(excluded, n) ==
    Cardinality({j \in 1..Len(excluded) : excluded[j].name = n})

\* C2: FilterChain.apply leaves every input record either in the final
\* included list or with exactly one item in the accumulated excluded list.
C2_ChainClassifiesEachRecordOnce ==
    result.op = "chain" =>
        /\ Len(result.included) + Len(result.excluded) = Len(performances)
        /\ \A i \in 1..Len(performances) :
               LET here == {j \in 1..Len(performances) :
                                performances[j] = performances[i]}
                   kept == {j \in 1..Len(result.included) :
                                result.included[j] = performances[i]}
               IN  Cardinality(kept)
                       + Cardinality(ItemsOf(performances[i]))
                       = Cardinality(here)

\* two records, each excluded by a different stage of a two-filter chain
C2_Witness ==
    /\ result.op = "chain"
    /\ Len(result.by) = 2
    /\ Len(performances) = 2
    /\ Len(result.excluded) = 2
    /\ result.excluded[1].filter_name = Filter_name(result.by[1])
    /\ result.excluded[2].filter_name = Filter_name(result.by[2])

\* C3: stage i of FilterChain.apply is given the included list of stage i-1;
\* a record that fails several filters is credited to the earliest of them
\* in chain order, and no later filter is given it.
C3_EarliestFilterCredited ==
    result.op = "chain" =>
        /\ Len(calls) = Len(result.by)
        /\ \A i \in 1..Len(calls) :
               calls[i] = IF i = 1 THEN performances
                          ELSE Filter_apply(result.by[i - 1],
                                            calls[i - 1]).included
        /\ \A i \in 1..Len(performances) :
               LET perf == performances[i]
                   k == FirstFailing(result.by, perf)
               IN  k # 0 =>
                       /\ \A m \in (k + 1)..Len(calls) :
                              perf \notin Range(calls[m])
                       /\ ItemsOf(perf) # {}
                       /\ \A j \in ItemsOf(perf) :
                              result.excluded[j].filter_name =
                                  Filter_name(result.by[k])

\* a record that both filters of a chain fail
C3_Witness ==
    /\ result.op = "chain"
    /\ Len(result.by) = 2
    /\ result.by[1].kind # result.by[2].kind
    /\ \E i \in 1..Len(performances) :
           /\ ~Passes(result.by[1], performances[i])
           /\ ~Passes(result.by[2], performances[i])
           /\ \E j \in ItemsOf(performances[i]) :
                  result.excluded[j].filter_name = Filter_name(result.by[1])

\* C4: every ordering of a chain's filters gives the same final included list
\* and excludes the same records; only the crediting filter can differ.
C4_OrderIndependentInclusion ==
    result.op = "chain" =>
        \A fs \in Orderings(result.by) :
            LET other == FilterChain_apply(fs, performances)
            IN  /\ other.included = result.included
                /\ \A i \in 1..Len(performances) :
                       CountNamed(other.excluded, PerfLabel(performances[i]))
                           = CountNamed(result.excluded,
                                        PerfLabel(performances[i]))

\* swapping the two filters changes the credit of an excluded record
C4_Witness ==
    /\ result.op = "chain"
    /\ Len(result.by) = 2
    /\ result.by[1].kind = "date_range"
    /\ result.by[2].kind = "confidence"
    /\ result.included # <<>>
    /\ Credit(FilterChain_apply(Reverse(result.by), performances).excluded)
           # Credit(result.excluded)

\* C5: the included list is a subsequence of the input, in input order; the
\* excluded list is ordered by stage and, within a stage, by input order.
C5_OrderPreserved ==
    result.op # "none" =>
        /\ \E c \in [1..Len(performances) -> BOOLEAN] :
               result.included = Masked(performances, c, TRUE, 1)
        /\ Credit(result.excluded) = CreditByStage(result.by, performances, 1)

\* the second record is excluded by the first stage and the first record by
\* the second stage: the excluded list follows the stages
C5_Witness ==
    /\ result.op = "chain"
    /\ Len(result.by) = 2
    /\ Len(performances) = 2
    /\ performances[1] # performances[2]
    /\ FirstFailing(result.by, performances[1]) = 2
    /\ FirstFailing(result.by, performances[2]) = 1
    /\ result.excluded[1].name = PerfLabel(performances[2])

-----------------------------------------------------------------------------
(* Properties of the FieldFilter and of filter names *)

\* the configuration a FieldFilter is constructed from
FieldConfig(f) ==
    <<f.field, f.allowed_values, f.case_insensitive, f.include_missing>>

\* every filter the constructors build from the arguments tried
AllFilters ==
    {DateRangeFilter(s, e) : s \in Days, e \in Days}
        \cup {ConfidenceFilter_init(m).value :
                 m \in {t \in Thresholds : ConfidenceFilter_init(t).raised = "none"}}
        \cup {FieldFilter(f, a, ci, im) :
                 f \in FieldNames, a \in AllowedSets,
                 ci \in BOOLEAN, im \in BOOLEAN}

\* the strings a metadata value is matched by: its elements, or itself
Elements(value) ==
    IF value.kind = "list" THEN Range(value.val) ELSE {value.val}

\* C11: a record without the FieldFilter's field is included iff
\* include_missing is set, whatever the allowed values are, and is otherwise
\* excluded with the reason "Missing metadata field".
C11_MissingFieldByFlag ==
    ByFilter("field") =>
        \A i \in 1..Len(performances) :
            LET perf == performances[i]
                self == result.by[1]
            IN  metadata_get(perf, self.field) = NoValue =>
                    /\ IsIncluded(perf) <=> self.include_missing
                    /\ ~self.include_missing =>
                           /\ ItemsOf(perf) # {}
                           /\ \A j \in ItemsOf(perf) :
                                  result.excluded[j].reason =
                                      "Missing metadata field '"
                                          \o self.field \o "'"

\* a record that has a genre but no country is excluded by a filter on
\* country, and one without a genre is included under include_missing
C11_Witness ==
    /\ ByFilter("field")
    /\ Len(performances) = 1
    /\ metadata_get(performances[1], result.by[1].field) = NoValue
    /\ \/ /\ result.by[1].field = "country"
          /\ metadata_get(performances[1], "genre") # NoValue
          /\ ~result.by[1].include_missing
          /\ result.included = <<>>
       \/ /\ result.by[1].field = "genre"
          /\ result.by[1].include_missing
          /\ result.included = performances

\* C12: a record that has the field is included iff one of the value's
\* elements (the value itself when it is no list) equals an allowed value,
\* both lowercased when case_insensitive is set and both as given otherwise.
C12_AnyElementMatches ==
    ByFilter("field") =>
        \A i \in 1..Len(performances) :
            LET perf == performances[i]
                self == result.by[1]
                value == metadata_get(perf, self.field)
                Norm(x) == IF self.case_insensitive THEN lower(x) ELSE x
            IN  value # NoValue =>
                    (IsIncluded(perf) <=>
                        \E e \in Elements(value), a \in self.allowed_values :
                            Norm(e) = Norm(a))

\* a list with one element that matches only after lowercasing
C12_Witness ==
    /\ ByFilter("field")
    /\ Len(performances) = 1
    /\ result.by[1].case_insensitive
    /\ metadata_get(performances[1], result.by[1].field).kind = "list"
    /\ Elements(metadata_get(performances[1], result.by[1].field))
           \cap result.by[1].allowed_values = {}
    /\ result.included = performances

\* C13: two filters of the same kind have the same name iff they have the
\* same configuration.
C13_NameIdentifiesConfiguration ==
    flt # NoFilter =>
        \A other \in AllFilters :
            other.kind = flt.kind =>
                ((Filter_name(other) = Filter_name(flt)) <=>
                    IF flt.kind = "field"
                    THEN FieldConfig(other) = FieldConfig(flt)
                    ELSE other = flt)

-----------------------------------------------------------------------------
(* Properties of the strategies *)

Called(kind) == strategy # NoStrategy /\ strategy.kind = kind
Min(a, b) == IF a <= b THEN a ELSE b

\* the selected tracks are, in order, the catalog's tracks at positions
SelectedAt(positions) ==
    /\ Len(selection.value) = Len(positions)
    /\ \A k \in 1..Len(positions) :
           /\ selection.value[k].spotify_id = tracks[positions[k]].id
           /\ selection.value[k].name = tracks[positions[k]].name
           /\ selection.value[k].popularity = tracks[positions[k]].popularity

\* at most count tracks, and none of an empty track list
AtMostCount ==
    /\ Len(selection.value) <= count
    /\ tracks = <<>> => selection.value = <<>>

\* C14: whatever the strategy, the track list and the count, select_tracks
\* returns a list of at most count tracks, the empty list for an empty
\* track list.
C14_AtMostCountTracks ==
    strategy # NoStrategy => selection.raised = "none" /\ AtMostCount

\* what C14 states holds of every call that returns
C14_OnReturn ==
    strategy # NoStrategy /\ selection.raised = "none" => AtMostCount

\* the first min(count, len(tracks)) tracks in the order supplied, the k-th
\* with the reason "Top k by popularity"
FirstTracksRanked ==
    /\ SelectedAt([k \in 1..Min(count, Len(tracks)) |-> k])
    /\ \A k \in 1..Len(selection.value) :
           selection.value[k].selection_reason =
               "Top " \o ToString(k) \o " by popularity"

\* C15: Top-N returns the first min(count, len(tracks)) tracks of the list
\* in the order supplied, the k-th with the reason "Top k by popularity".
C15_TopNFirstTracks ==
    Called("top_n") => selection.raised = "none" /\ FirstTracksRanked

\* what C15 states holds of every call that returns
C15_OnReturn ==
    Called("top_n") /\ selection.raised = "none" => FirstTracksRanked

\* the whole catalog in its order when it has at most count tracks, and
\* otherwise count tracks at pairwise distinct positions of the catalog
WholeOrDistinctSample ==
    IF Len(tracks) <= count
    THEN SelectedAt([k \in 1..Len(tracks) |-> k])
    ELSE /\ Len(selection.value) = count
         /\ \E positions \in Samples(Len(tracks), count) :
                SelectedAt(positions)

\* C16: Random-N returns the whole catalog in the given order when it has at
\* most count tracks, and otherwise, whatever is drawn, exactly count tracks
\* at pairwise distinct positions of the catalog.
C16_RandomNWithoutReplacement ==
    Called("random_n") => selection.raised = "none" /\ WholeOrDistinctSample

\* what C16 states holds of every call that returns
C16_OnReturn ==
    Called("random_n") /\ selection.raised = "none" => WholeOrDistinctSample

\* the year a release-date string starts with, as a one-element tuple, and
\* <<>> for a string that is missing, empty or starts with no integer
ReleaseYear(track) ==
    LET release == release_date_get(track, EmptyStr)
    IN  IF release = EmptyStr THEN <<>> ELSE release[1].int

Distance(a, b) == IF a >= b THEN a - b ELSE b - a

\* max(0, 100 - 10 * |release_year - performance_year|), and 0 without a
\* release year
EraScore(track) ==
    IF ReleaseYear(track) = <<>> THEN 0
    ELSE LET d == Distance(ReleaseYear(track)[1], performance_date[1])
         IN  IF 100 - 10 * d > 0 THEN 100 - 10 * d ELSE 0

\* position i comes before position j in the catalog sorted by score
\* descending, equal scores in catalog order
Outranks(i, j) ==
    \/ EraScore(tracks[i]) > EraScore(tracks[j])
    \/ EraScore(tracks[i]) = EraScore(tracks[j]) /\ i < j

\* the position of the catalog that k - 1 positions outrank
Ranked(k) ==
    CHOOSE i \in 1..Len(tracks) :
        Cardinality({j \in 1..Len(tracks) : Outranks(j, i)}) = k - 1

\* the scores are those of the formula and the tracks returned are the
\* first count of the catalog sorted by them
ScoredAndRanked ==
    /\ selection.scores = [i \in 1..Len(tracks) |-> EraScore(tracks[i])]
    /\ SelectedAt([k \in 1..Min(count, Len(tracks)) |-> Ranked(k)])

\* C17: Era-weighted with a performance date scores each track
\* max(0, 100 - 10 * |release_year - performance_year|) and returns the first
\* count tracks of the catalog sorted by score descending, equal scores in
\* catalog order.
C17_EraWeightedRanking ==
    Called("era_weighted") /\ performance_date # NoReleaseDate =>
        selection.raised = "none" /\ ScoredAndRanked

\* what C17 states holds of every call that returns
C17_OnReturn ==
    Called("era_weighted") /\ performance_date # NoReleaseDate
        /\ selection.raised = "none" => ScoredAndRanked

\* C18: Era-weighted without a performance date gives what Top-N gives on
\* the same track list and count: the same tracks in the same order with the
\* same reasons, or the same exception.
C18_EraWeightedFallsBackToTopN ==
    Called("era_weighted") /\ performance_date = NoReleaseDate =>
        LET top == TopNStrategy_select_tracks(TopNStrategy, tracks,
                                              performance_date, count)
        IN  /\ selection.raised = top.raised
            /\ selection.value = top.value
            /\ selection.raised = "none" => FirstTracksRanked

\* without a performance date two of three tracks are returned, ranked
C18_Witness ==
    /\ Called("era_weighted")
    /\ performance_date = NoReleaseDate
    /\ Len(tracks) = 3
    /\ count = 2
    /\ Len(selection.value) = 2
    /\ selection.value[2].spotify_id = tracks[2].id
    /\ selection.value[2].selection_reason = "Top 2 by popularity"

\* release-date parsing yields no usable release date for the track
NoUsableDate(track) ==
    \/ release_date_of(track).raised # "none"
    \/ release_date_of(track).value = NoReleaseDate

\* the position of the selected track sel in the catalog
PositionOf(sel) == CHOOSE i \in 1..Len(tracks) : tracks[i].id = sel.spotify_id

\* C19: Era-weighted with a performance date never raises and gives score 0
\* to every track release-date parsing yields no usable release date for, so
\* that no such track is returned while a track with a positive score is
\* left out.
C19_UnparsableScoresZero ==
    Called("era_weighted") /\ performance_date # NoReleaseDate =>
        /\ selection.raised = "none"
        /\ \A i \in 1..Len(tracks) :
               NoUsableDate(tracks[i]) =>
                   /\ selection.scores[i] = 0
                   /\ \A j \in 1..Len(tracks) :
                          /\ selection.scores[j] > 0
                          /\ \E k \in 1..Len(selection.value) :
                                 PositionOf(selection.value[k]) = i
                          => \E k \in 1..Len(selection.value) :
                                 PositionOf(selection.value[k]) = j

\* the date the string stands for when it has the form YYYY, YYYY-MM or
\* YYYY-MM-DD, every part being digits and the date existing; <<>> otherwise
DateWritten(release) ==
    LET n == Len(release)
        year == release[1].int[1]
        month == IF n >= 2 THEN release[2].int[1] ELSE 1
        day == IF n = 3 THEN release[3].int[1] ELSE 1
    IN  IF /\ n \in 1..3
           /\ \A k \in 1..n : release[k].isdigit
           /\ year \in 1..9999
           /\ month \in 1..12
           /\ day \in 1..DaysInMonth(year, month)
        THEN <<year, month, day>>
        ELSE NoReleaseDate

\* C20: building the selected tracks never raises, and each selected track
\* has the date its release-date string writes as YYYY, YYYY-MM (day 1) or
\* YYYY (month 1, day 1), and no release date for every other string.
C20_ReleaseDateParsed ==
    strategy # NoStrategy =>
        /\ selection.raised = "none"
        /\ \A k \in 1..Len(selection.value) :
               selection.value[k].release_date =
                   DateWritten(release_date_get(
                       tracks[PositionOf(selection.value[k])], EmptyStr))

\* what C20 states holds of every string of one to three parts that int()
\* and str.isdigit() agree on and whose numbers fit a C int
C20_OnPlainStrings ==
    (/\ strategy # NoStrategy
     /\ \A i \in 1..Len(tracks) :
            LET release == release_date_get(tracks[i], EmptyStr)
            IN  /\ Len(release) <= 3
                /\ \A k \in 1..Len(release) :
                       /\ release[k].isdigit <=> release[k].int # <<>>
                       /\ release[k].int # <<>> => release[k].int[1] <= INT_MAX)
    => /\ selection.raised = "none"
       /\ \A k \in 1..Len(selection.value) :
              selection.value[k].release_date =
                  DateWritten(release_date_get(
                      tracks[PositionOf(selection.value[k])], EmptyStr))

-----------------------------------------------------------------------------
(* Properties of the Deep-cuts strategy *)

\* the catalog positions of the tracks with popularity <= max_popularity
PoolPositions ==
    {i \in 1..Len(tracks) : tracks[i].popularity <= strategy.max_popularity}

\* the injective sequences of k positions out of the set P
DistinctPositions(P, k) ==
    {q \in [1..k -> P] : \A a, b \in 1..k : a # b => q[a] # q[b]}

\* the positions of P in increasing order
RECURSIVE InOrder(_)
InOrder(P) ==
    IF P = {} THEN <<>>
    ELSE LET least == CHOOSE i \in P : \A j \in P : i <= j
         IN  <<least>> \o InOrder(P \ {least})

\* every returned track is of the pool, min(count, pool size) tracks are
\* returned at distinct positions, the whole pool in catalog order when it
\* has at most count tracks
DrawnFromPool ==
    /\ \A k \in 1..Len(selection.value) :
           selection.value[k].popularity <= strategy.max_popularity
    /\ Len(selection.value) = Min(count, Cardinality(PoolPositions))
    /\ \E q \in DistinctPositions(PoolPositions, Len(selection.value)) :
           SelectedAt(q)
    /\ Cardinality(PoolPositions) <= count => SelectedAt(InOrder(PoolPositions))

\* C21: Deep-cuts with a track of popularity <= max_popularity returns
\* min(count, pool size) tracks at distinct catalog positions, each of
\* popularity <= max_popularity, the whole pool in catalog order when the
\* pool has at most count tracks.
C21_DeepCutsFromPool ==
    Called("deep_cuts") /\ PoolPositions # {} =>
        selection.raised = "none" /\ DrawnFromPool

\* what C21 states holds of every call that returns
C21_OnReturn ==
    Called("deep_cuts") /\ PoolPositions # {} /\ selection.raised = "none"
        => DrawnFromPool

\* position j comes before position i in the catalog sorted by popularity
\* ascending, equal popularities in catalog order
LessPopular(j, i) ==
    \/ tracks[j].popularity < tracks[i].popularity
    \/ tracks[j].popularity = tracks[i].popularity /\ j < i

\* the positions of the 2 * count least popular tracks
LeastPopularPositions ==
    {i \in 1..Len(tracks) :
        Cardinality({j \in 1..Len(tracks) : LessPopular(j, i)}) < 2 * count}

\* min(count, catalog size) tracks are returned, at distinct positions among
\* the 2 * count least popular, and one at least for a count of one or more
DrawnFromLeastPopular ==
    /\ Len(selection.value) = Min(count, Len(tracks))
    /\ \E q \in DistinctPositions(LeastPopularPositions, Len(selection.value)) :
           SelectedAt(q)
    /\ count >= 1 => selection.value # <<>>

\* C22: Deep-cuts on a non-empty catalog without a track of popularity
\* <= max_popularity returns min(count, catalog size) tracks drawn from the
\* 2 * count least popular tracks, so at least one track when count >= 1.
C22_DeepCutsFallback ==
    Called("deep_cuts") /\ PoolPositions = {} /\ tracks # <<>> =>
        selection.raised = "none" /\ DrawnFromLeastPopular

\* what C22 states holds of every call that returns
C22_OnReturn ==
    Called("deep_cuts") /\ PoolPositions = {} /\ tracks # <<>>
        /\ selection.raised = "none" => DrawnFromLeastPopular

-----------------------------------------------------------------------------
(* Properties of the strategy resolver and of get_tracks_for_artist *)

\* the name up to its first hyphen, the whole name when it has none
PrefixOf(name) ==
    IF \E i \in 1..Len(name) : SubSeq(name, i, i) = "-"
    THEN LET i == CHOOSE i \in 1..Len(name) :
                      /\ SubSeq(name, i, i) = "-"
                      /\ \A j \in 1..(i - 1) : SubSeq(name, j, j) # "-"
         IN  SubSeq(name, 1, i - 1)
    ELSE name

\* the strategy the lookup table gives for a lowercased prefix
Resolved(prefix, kw) ==
    CASE prefix \in {"top", "top_n"} -> TopNStrategy
      [] prefix \in {"random", "random_n"} -> RandomNStrategy
      [] prefix \in {"era", "era_weighted"} -> EraWeightedStrategy
      [] prefix \in {"deep", "deep_cuts"} ->
             DeepCutsStrategy(IF kw = NoKwargs THEN 60 ELSE kw.max_popularity)
      [] OTHER -> TopNStrategy

\* C23: get_strategy returns the strategy the lookup table gives for the
\* lowercased name up to its first hyphen, Top-N for a prefix that is not in
\* the table and max_popularity 60 for Deep-cuts unless it is given, and the
\* same strategy for every name with the same lowercased prefix.
C23_ResolverByPrefix ==
    client_result.op = "get_strategy" =>
        /\ strategy = Resolved(str_lower(PrefixOf(strategy_name)), kwargs)
        /\ \A other \in StrategyNames :
               str_lower(PrefixOf(other)) = str_lower(PrefixOf(strategy_name))
                   => get_strategy(other, kwargs) = strategy

\* a name in capitals with a count resolves to Deep-cuts with the
\* max_popularity given, and an unknown name to Top-N
C23_Witness ==
    /\ client_result.op = "get_strategy"
    /\ \/ /\ strategy_name = "Deep_Cuts-2"
          /\ kwargs = Kwargs(40)
          /\ strategy = DeepCutsStrategy(40)
       \/ /\ strategy_name = "xyz-2"
          /\ strategy = TopNStrategy

\* get_tracks_for_artist was called
ClientCalled == client_result.op = "get_tracks_for_artist"

\* C26: get_tracks_for_artist returns either tracks and no exclusion, or no
\* track and exactly one ExcludedItem of type "artist".
C26_ArtistAccountedFor ==
    ClientCalled =>
        /\ client_result.raised = "none"
        /\ \/ client_result.tracks # <<>> /\ client_result.excluded = <<>>
           \/ /\ client_result.tracks = <<>>
              /\ Len(client_result.excluded) = 1
              /\ client_result.excluded[1].item_type = "artist"

\* what C26 states holds of every call with a count of one or more that
\* returns
C26_WithPositiveCount ==
    ClientCalled /\ count >= 1 /\ client_result.raised = "none" =>
        /\ \/ client_result.tracks # <<>> /\ client_result.excluded = <<>>
           \/ /\ client_result.tracks = <<>>
              /\ Len(client_result.excluded) = 1
              /\ client_result.excluded[1].item_type = "artist"

\* Top-N selection ran: select_tracks was called on the Top-N strategy, or
\* on the Era-weighted strategy without a performance date
TopNRan ==
    /\ ClientCalled
    /\ tracks # <<>>
    /\ \/ strategy.kind = "top_n"
       \/ strategy.kind = "era_weighted" /\ performance_date = NoReleaseDate

\* C27: whenever Top-N selection runs inside get_tracks_for_artist, the
\* track list comes from the top-tracks request and is ordered by popularity
\* descending.
C27_TopNGetsTopTracks ==
    TopNRan =>
        /\ endpoint = "top_tracks"
        /\ \A i, j \in 1..Len(tracks) :
               i < j => popularity_get(tracks[i], 0) >= popularity_get(tracks[j], 0)

\* what C27 states holds of the names that do not contain "era"
C27_WithoutEra ==
    TopNRan /\ ~Contains(str_lower(strategy_name), "era") =>
        /\ endpoint = "top_tracks"
        /\ \A i, j \in 1..Len(tracks) :
               i < j => popularity_get(tracks[i], 0) >= popularity_get(tracks[j], 0)

\* some filter of the chain, or the chain, is applied in this step
Applies == ApplyChain \/ \E i \in 1..Len(filters) : ApplyOne(i)

\* the chain has just been applied to the input and is applied again
AppliesAgain == ApplyChain /\ result.op = "chain" /\ result.by = filters

C29_CachesOnlyCompleteLists ==
    \A i \in 1..Len(cache) : cache[i].complete

\* what does hold of the cache: the list of a call is stored exactly when
\* it is not empty, and no row holds an empty list
C29_StoresNonEmptyLists ==
    /\ \A i \in 1..Len(cache) : cache[i].performances_json # <<>>
    /\ source_pc = "done" /\ ~source_result.cached /\ source_result.value # <<>>
           => /\ cache # <<>>
              /\ json_loads(cache[Len(cache)].performances_json, 1, <<>>)
                     = source_result.value

\* the least n with n * per_page >= total, for a per_page of one or more
Ceil(total, per_page) ==
    CHOOSE n \in (-1)..(MaxTotal + 1) :
        n * per_page >= total /\ (n - 1) * per_page < total

\* the last page by a response: page ceil(total / itemsPerPage), page 1 for
\* an itemsPerPage of zero or less; a missing total is 0 and a missing
\* itemsPerPage 20
PagesOf(response) ==
    IF dict_get(response.itemsPerPage, 20) <= 0 THEN 1
    ELSE Ceil(dict_get(response.total, 0), dict_get(response.itemsPerPage, 20))

\* the page loop goes on to a further request
Continues == source_pc = "loop" /\ ~failed /\ page <= total_pages

\* the requests of a call are for the pages 1, 2, 3, ... in this order
PagesInOrder == \A k \in 1..Len(pages_requested) : pages_requested[k] = k

\* the loop goes on after a request exactly when the request succeeded and
\* its page is before the last page by its response
StopsAtLastPage ==
    \A response \in Responses(page) :
        FetchPage(response) =>
            (Continues' <=> response.ok /\ page < PagesOf(response))

Deduplicated ==
    /\ pipeline_pc # "idle"
    /\ venues # <<>>
    /\ pipeline_pc = "ended" /\ pipeline_result.raised # "none"
           => pipeline_result.message # "min_confidence"

\* run() is past its track loop
PastTrackLoop == Deduplicated /\ pipeline_pc \in {"add", "ended"}

\* the calls of get_tracks_for_artist run() made, in call order
TrackCalls ==
    SelectSeq(spotify_calls, LAMBDA c : c.op = "get_tracks_for_artist")

LowerName(perf) == str_lower(perf.artist_name)

\* the retained records are, in order, the first records of each lowercased
\* artist name of the filtered list
FirstOfEachArtist ==
    LET F == filtered_performances
        U == unique_performances
    IN  /\ \A j, k \in 1..Len(U) : j # k => LowerName(U[j]) # LowerName(U[k])
        /\ \A k \in 1..Len(U) :
               \E i \in 1..Len(F) :
                   /\ F[i] = U[k]
                   /\ \A h \in 1..(i - 1) : LowerName(F[h]) # LowerName(U[k])
        /\ \A i \in 1..Len(F) :
               \E k \in 1..Len(U) : LowerName(U[k]) = LowerName(F[i])

\* get_tracks_for_artist was called once for each retained record, with the
\* record's artist name and performance date
CalledOncePerArtist ==
    /\ Len(TrackCalls) = Len(unique_performances)
    /\ \A k \in 1..Len(TrackCalls) :
           /\ TrackCalls[k].artist_name = unique_performances[k].artist_name
           /\ TrackCalls[k].performance_date =
                  date_of_ordinal(unique_performances[k].performance_date)

\* C25: run() deduplicates by artist: the retained performances have
\* pairwise distinct lowercased artist names, each is the first record of the
\* filtered list with its lowercased name, every name of the filtered list
\* is retained once, and the strategy is called once per retained record
\* with the record's performance date.
C25_DeduplicatedByArtist ==
    /\ Deduplicated => FirstOfEachArtist
    /\ PastTrackLoop => CalledOncePerArtist

\* what C25 states holds of every run in which no get_tracks_for_artist
\* call raises
C25_OnReturn ==
    /\ Deduplicated => FirstOfEachArtist
    /\ PastTrackLoop /\ pipeline_result.raised # "OverflowError"
           => CalledOncePerArtist

\* the history holds a call of the operation
Made(op) == \E i \in 1..Len(spotify_calls) : spotify_calls[i].op = op

\* a playlist is created only after a call that selected a track
PlaylistAfterTrack ==
    \A i \in 1..Len(spotify_calls) :
        spotify_calls[i].op = "create_playlist" =>
            \E j \in 1..(i - 1) :
                /\ spotify_calls[j].op = "get_tracks_for_artist"
                /\ spotify_calls[j].tracks # <<>>

\* run() ended with no venue found, or with no artist that gave a track
EndedWithoutTrack ==
    /\ pipeline_pc = "ended"
    /\ venues = <<>> \/ \A k \in 1..Len(TrackCalls) : TrackCalls[k].tracks = <<>>

NoPlaylistCall == ~Made("create_playlist") /\ ~Made("add_tracks_to_playlist")

\* the ids of the tracks the calls from position i on selected
RECURSIVE SelectedIds(_, _)
SelectedIds(trackCalls, i) ==
    IF i > Len(trackCalls) THEN <<>>
    ELSE [k \in 1..Len(trackCalls[i].tracks) |->
             trackCalls[i].tracks[k].spotify_id]
             \o SelectedIds(trackCalls, i + 1)

\* add_tracks_to_playlist is called right after a create_playlist that
\* returned, with the ids of the selected tracks in artist order
AddAfterCreate ==
    \A i \in 1..Len(spotify_calls) :
        spotify_calls[i].op = "add_tracks_to_playlist" =>
            /\ i > 1
            /\ spotify_calls[i - 1].op = "create_playlist"
            /\ spotify_calls[i - 1].raised = "none"
            /\ spotify_calls[i].track_ids = SelectedIds(TrackCalls, 1)

\* C28: run() creates a playlist only after a track has been selected; when
\* the venue search returns no venue or no surviving artist yields a track
\* it raises ValueError and has called neither create_playlist nor
\* add_tracks_to_playlist; and once a playlist is created,
\* add_tracks_to_playlist is called with the selected track ids in artist
\* order.
C28_PlaylistOnlyWithTracks ==
    /\ [](PlaylistAfterTrack /\ AddAfterCreate)
    /\ [](EndedWithoutTrack =>
              pipeline_result.raised = "ValueError" /\ NoPlaylistCall)
    /\ (pipeline_pc = "add") ~> Made("add_tracks_to_playlist")

\* what C28 states holds of every run in which no get_tracks_for_artist
\* call raises
C28_OnReturn ==
    /\ [](PlaylistAfterTrack /\ AddAfterCreate)
    /\ [](EndedWithoutTrack /\ pipeline_result.raised # "OverflowError" =>
              pipeline_result.raised = "ValueError" /\ NoPlaylistCall)
    /\ (pipeline_pc = "add") ~> Made("add_tracks_to_playlist")

====
